---- MODULE Spec2Model ----
(***************************************************************************)
(* Veritas: transactional outbox, outbox dispatcher, queue worker and the  *)
(* Action / Policy aggregates with their command handlers.                 *)
(*                                                                         *)
(* Three specifications over one set of variables:                         *)
(*   SpecWrite   command handlers -> aggregates -> repositories/event store*)
(*   SpecOutbox  OutboxProcessorService instances polling event_outbox     *)
(*   SpecWorker  DomainEventsProcessor jobs, handlers and the ledger       *)
(***************************************************************************)
EXTENDS Integers, Sequences, FiniteSets, TLC

VARIABLES
    \* ---- database tables ----
    actions,        \* actions table: action id -> row
    policies,       \* policies table: policy id -> row
    domainEvents,   \* domain_events table: event id -> row
    eventOutbox,    \* event_outbox table: outbox id -> row
    \* ---- command execution (one in-flight command per caller task) ----
    wpc,            \* caller -> position inside the command handler
    wcmd,           \* caller -> type, target id and expectedVersion of the command
    wagg,           \* caller -> aggregate state after the aggregate operation
    wevents,        \* caller -> events returned by the aggregate operation
    wresult,        \* caller -> CommandResult (or thrown error) of the command
    commitLog,      \* aggregate id -> versions written by committed transactions
    scope,          \* aggregate ids the incoming commands of this run address
    \* ---- outbox dispatcher processes ----
    now,            \* wall clock in ms
    dpc,            \* dispatcher -> position inside processOutbox
    isProcessing,   \* dispatcher -> OutboxProcessorService.isProcessing
    isShuttingDown, \* dispatcher -> OutboxProcessorService.isShuttingDown
    dbatch,         \* dispatcher -> rows returned by the claim SELECT
    dtasks,         \* running processEvent(outboxEntry) calls
    crashes,        \* number of dispatcher process deaths so far
    queueJobs,      \* BullMQ domain-events queue: jobs (id, data.eventId)
    enqueueLog,     \* event ids in the order of their first successful add
    \* ---- queue worker ----
    registry,       \* EventHandlerRegistry: handler names of the event type
    ledgerUnique,   \* whether processed_events has the unique index
    jpc,            \* job execution -> position inside process()
    jevent,         \* job execution -> event id of the job
    hpc,            \* job execution -> handler name -> position in executeHandler
    processedEvents,\* processed_events table: <<eventId, handlerName>> -> rows
    auditLog,       \* side effects: <<eventId, handlerName>> -> rows written
    attemptsMade,   \* attempts of the job that ended in failure (job.attemptsMade)
    deliveries,     \* number of job executions started so far
    \* ---- objects in process memory ----
    failureAttempts,   \* PolicyAuditHandler.failureAttempts: key -> invocations
    simulateFailure,   \* payload.simulateFailure of the job of the seed event
    uncommittedEvents, \* AggregateRoot._uncommittedEvents of the loaded aggregate
    trip               \* one event on its way from the aggregate to a handler

writeVars  == <<wpc, wcmd, wagg, wevents, wresult, commitLog, scope>>
tableVars  == <<actions, policies, domainEvents>>
outboxVars == <<now, dpc, isProcessing, isShuttingDown, dbatch, dtasks, crashes,
                queueJobs, enqueueLog>>
memoryVars == <<failureAttempts, simulateFailure, uncommittedEvents, trip>>
workerVars == <<registry, ledgerUnique, jpc, jevent, hpc, processedEvents,
                auditLog, attemptsMade, deliveries, memoryVars>>
vars == <<actions, policies, domainEvents, eventOutbox, wpc, wcmd, wagg,
          wevents, wresult, commitLog, scope, now, dpc, isProcessing, isShuttingDown,
          dbatch, dtasks, crashes, queueJobs, enqueueLog, registry, ledgerUnique,
          jpc, jevent, hpc, processedEvents, auditLog, attemptsMade, deliveries,
          failureAttempts, simulateFailure, uncommittedEvents, trip>>

(***************************************************************************)
(* Strings are sequences of characters so that trim() and length are       *)
(* computed, not assumed.                                                  *)
(***************************************************************************)
Undef == <<"<undefined>">>
Null  == <<"<null>">>

RECURSIVE TrimStart(_)
TrimStart(s) ==
    IF s # <<>> /\ Head(s) = " " THEN TrimStart(Tail(s)) ELSE s

RECURSIVE TrimEnd(_)
TrimEnd(s) ==
    IF s # <<>> /\ s[Len(s)] = " " THEN TrimEnd(SubSeq(s, 1, Len(s) - 1)) ELSE s

Trim(s) == TrimEnd(TrimStart(s))

\* description?.trim() || null
TrimOrNull(s) ==
    IF s = Null \/ s = Undef \/ Trim(s) = <<>> THEN Null ELSE Trim(s)

MaxNameLen == 200
LongName == [i \in 1..(MaxNameLen + 1) |-> "a"]

(***************************************************************************)
(* Aggregate results and domain events                                     *)
(***************************************************************************)
createEventFactory(eventType, aggregateType, aggregateId, newVersion) ==
    [eventType |-> eventType, aggregateType |-> aggregateType,
     aggregateId |-> aggregateId, newVersion |-> newVersion, eventVersion |-> 1]

aggregateSuccess(state, events) ==
    [success |-> TRUE, rule |-> "", state |-> state, events |-> events]

aggregateFailure(state, rule) ==
    [success |-> FALSE, rule |-> rule, state |-> state, events |-> <<>>]

NoActionRow ==
    [name |-> Null, description |-> Null, metadata |-> Null,
     status |-> "absent", version |-> 0]

NoPolicyRow ==
    [name |-> Null, rules |-> Null, status |-> "absent", version |-> 0,
     suspensionReason |-> Null, revocationReason |-> Null, revokedBy |-> Null]

(***************************************************************************)
(* ActionAggregate                                                         *)
(***************************************************************************)
ActionCreate(id, name, description, metadata) ==
    IF Trim(name) = <<>>
    THEN aggregateFailure(NoActionRow, "action.name.required")
    ELSE IF Len(name) > MaxNameLen
    THEN aggregateFailure(NoActionRow, "action.name.too_long")
    ELSE aggregateSuccess(
            [name |-> Trim(name), description |-> TrimOrNull(description),
             metadata |-> metadata, status |-> "active", version |-> 1],
            <<createEventFactory("action.created", "Action", id, 1)>>)

\* the change record built by ActionAggregate.update: the set of changed fields
ActionChangeRecord(state, changes) ==
    (IF changes.name # Undef /\ changes.name # state.name
        THEN {"name"} ELSE {})
    \cup (IF changes.description # Undef /\ changes.description # state.description
        THEN {"description"} ELSE {})
    \cup (IF changes.metadata # Undef THEN {"metadata"} ELSE {})

ActionUpdate(id, state, changes, expectedVersion) ==
    IF state.version # expectedVersion
    THEN aggregateFailure(state, "action.version.mismatch")
    ELSE IF state.status = "inactive"
    THEN aggregateFailure(state, "action.update.inactive")
    ELSE IF changes.name # Undef /\ Trim(changes.name) = <<>>
    THEN aggregateFailure(state, "action.name.required")
    ELSE IF changes.name # Undef /\ Len(changes.name) > MaxNameLen
    THEN aggregateFailure(state, "action.name.too_long")
    ELSE
      LET rec == ActionChangeRecord(state, changes)
          mutated ==
            [state EXCEPT
               !.name = IF "name" \in rec THEN Trim(changes.name) ELSE @,
               !.description = IF "description" \in rec
                               THEN TrimOrNull(changes.description) ELSE @,
               !.metadata = IF "metadata" \in rec THEN changes.metadata ELSE @]
          newVersion == state.version + 1
      IN IF rec = {}
         THEN aggregateSuccess(mutated, <<>>)
         ELSE aggregateSuccess(
                [mutated EXCEPT !.version = newVersion],
                <<createEventFactory("action.updated", "Action", id, newVersion)>>)

\* variant: complete without the check of the current status
ActionComplete_AnyStatus(id, state, expectedVersion) ==
    IF state.version # expectedVersion
    THEN aggregateFailure(state, "action.version.mismatch")
    ELSE LET newVersion == state.version + 1
         IN aggregateSuccess(
              [state EXCEPT !.status = "inactive", !.version = newVersion],
              <<createEventFactory("action.completed", "Action", id, newVersion)>>)

ActionComplete(id, state, expectedVersion) ==
    IF state.version # expectedVersion
    THEN aggregateFailure(state, "action.version.mismatch")
    ELSE IF state.status # "active"
    THEN aggregateFailure(state, "action.complete.not_active")
    ELSE LET newVersion == state.version + 1
         IN aggregateSuccess(
              [state EXCEPT !.status = "inactive", !.version = newVersion],
              <<createEventFactory("action.completed", "Action", id, newVersion)>>)

\* variant: cancel sets the status before it has checked the reason
ActionCancel_MutateFirst(id, state, reason, expectedVersion) ==
    IF state.version # expectedVersion
    THEN aggregateFailure(state, "action.version.mismatch")
    ELSE IF state.status # "active"
    THEN aggregateFailure(state, "action.cancel.not_active")
    ELSE IF Trim(reason) = <<>>
    THEN aggregateFailure([state EXCEPT !.status = "inactive"],
                          "action.cancel.reason_required")
    ELSE LET newVersion == state.version + 1
         IN aggregateSuccess(
              [state EXCEPT !.status = "inactive", !.version = newVersion],
              <<createEventFactory("action.cancelled", "Action", id, newVersion)>>)

ActionCancel(id, state, reason, expectedVersion) ==
    IF state.version # expectedVersion
    THEN aggregateFailure(state, "action.version.mismatch")
    ELSE IF state.status # "active"
    THEN aggregateFailure(state, "action.cancel.not_active")
    ELSE IF Trim(reason) = <<>>
    THEN aggregateFailure(state, "action.cancel.reason_required")
    ELSE LET newVersion == state.version + 1
         IN aggregateSuccess(
              [state EXCEPT !.status = "inactive", !.version = newVersion],
              <<createEventFactory("action.cancelled", "Action", id, newVersion)>>)

(***************************************************************************)
(* PolicyAggregate                                                         *)
(***************************************************************************)
PolicyCreate(id, name, rules) ==
    IF Trim(name) = <<>>
    THEN aggregateFailure(NoPolicyRow, "policy.name.required")
    ELSE IF Len(name) > MaxNameLen
    THEN aggregateFailure(NoPolicyRow, "policy.name.too_long")
    ELSE IF rules = Null
    THEN aggregateFailure(NoPolicyRow, "policy.rules.required")
    ELSE aggregateSuccess(
            [NoPolicyRow EXCEPT !.name = Trim(name), !.rules = rules,
                                !.status = "draft", !.version = 1],
            <<createEventFactory("policy.created", "Policy", id, 1)>>)

\* variant: activate without the check of the current status
PolicyActivate_AnyStatus(id, state, expectedVersion) ==
    IF state.version # expectedVersion
    THEN aggregateFailure(state, "policy.version.mismatch")
    ELSE LET newVersion == state.version + 1
         IN aggregateSuccess(
              [state EXCEPT !.status = "active", !.version = newVersion],
              <<createEventFactory("policy.activated", "Policy", id, newVersion)>>)

PolicyActivate(id, state, expectedVersion) ==
    IF state.version # expectedVersion
    THEN aggregateFailure(state, "policy.version.mismatch")
    ELSE IF state.status # "draft"
    THEN aggregateFailure(state, "policy.activate.not_draft")
    ELSE LET newVersion == state.version + 1
         IN aggregateSuccess(
              [state EXCEPT !.status = "active", !.version = newVersion],
              <<createEventFactory("policy.activated", "Policy", id, newVersion)>>)

PolicySuspend(id, state, reason, expectedVersion) ==
    IF state.version # expectedVersion
    THEN aggregateFailure(state, "policy.version.mismatch")
    ELSE IF state.status # "active"
    THEN aggregateFailure(state, "policy.suspend.not_active")
    ELSE IF Trim(reason) = <<>>
    THEN aggregateFailure(state, "policy.suspend.reason_required")
    ELSE LET newVersion == state.version + 1
         IN aggregateSuccess(
              [state EXCEPT !.status = "suspended", !.version = newVersion,
                            !.suspensionReason = Trim(reason)],
              <<createEventFactory("policy.suspended", "Policy", id, newVersion)>>)

\* variant: resume tests the status before the expected version
PolicyResume_StatusFirst(id, state, expectedVersion) ==
    IF state.status # "suspended"
    THEN aggregateFailure(state, "policy.resume.not_suspended")
    ELSE IF state.version # expectedVersion
    THEN aggregateFailure(state, "policy.version.mismatch")
    ELSE LET newVersion == state.version + 1
         IN aggregateSuccess(
              [state EXCEPT !.status = "active", !.version = newVersion,
                            !.suspensionReason = Null],
              <<createEventFactory("policy.resumed", "Policy", id, newVersion)>>)

PolicyResume(id, state, expectedVersion) ==
    IF state.version # expectedVersion
    THEN aggregateFailure(state, "policy.version.mismatch")
    ELSE IF state.status # "suspended"
    THEN aggregateFailure(state, "policy.resume.not_suspended")
    ELSE LET newVersion == state.version + 1
         IN aggregateSuccess(
              [state EXCEPT !.status = "active", !.version = newVersion,
                            !.suspensionReason = Null],
              <<createEventFactory("policy.resumed", "Policy", id, newVersion)>>)

PolicyRevoke(id, state, reason, revokedBy, expectedVersion) ==
    IF state.version # expectedVersion
    THEN aggregateFailure(state, "policy.version.mismatch")
    ELSE IF state.status = "revoked"
    THEN aggregateFailure(state, "policy.revoke.already_revoked")
    ELSE IF Trim(reason) = <<>>
    THEN aggregateFailure(state, "policy.revoke.reason_required")
    ELSE IF Trim(revokedBy) = <<>>
    THEN aggregateFailure(state, "policy.revoke.approver_required")
    ELSE LET newVersion == state.version + 1
         IN aggregateSuccess(
              [state EXCEPT !.status = "revoked", !.version = newVersion,
                            !.revocationReason = Trim(reason),
                            !.revokedBy = Trim(revokedBy)],
              <<createEventFactory("policy.revoked", "Policy", id, newVersion)>>)

(***************************************************************************)
(* Bounds and input domains of the write path                              *)
(***************************************************************************)
MaxVersion == 2

Writers   == {"w1", "w2"}
ActionIds == {"a1"}
PolicyIds == {"p1"}
AggregateIds == ActionIds \cup PolicyIds

NameInputs        == {<<" ">>, <<"a">>, <<"b", " ">>}
DescriptionInputs == {Undef}
MetadataInputs    == {Undef}
ReasonInputs      == {<<" ">>, <<"r">>}
RevokedByInputs   == {<<>>, <<"u">>}
RulesInputs       == {Null, <<"x:1">>}
ExpectedVersions  == 1..(MaxVersion - 1)

NoCommand ==
    [type |-> "none", id |-> "", expectedVersion |-> 0, name |-> Undef,
     description |-> Undef, metadata |-> Undef, reason |-> Undef,
     revokedBy |-> Undef, rules |-> Null]

ActionCommandTypes == {"CreateAction", "UpdateAction", "CompleteAction", "CancelAction"}
PolicyCommandTypes == {"CreatePolicy", "ActivatePolicy", "SuspendPolicy",
                       "ResumePolicy", "RevokePolicy"}

Commands ==
    {[NoCommand EXCEPT !.type = "CreateAction", !.id = id, !.name = n,
                       !.description = d, !.metadata = m] :
        id \in ActionIds, n \in NameInputs, d \in DescriptionInputs,
        m \in MetadataInputs}
    \cup {[NoCommand EXCEPT !.type = "UpdateAction", !.id = id, !.name = n,
                       !.description = d, !.metadata = m, !.expectedVersion = v] :
        id \in ActionIds, n \in NameInputs \cup {Undef}, d \in DescriptionInputs,
        m \in MetadataInputs, v \in ExpectedVersions}
    \cup {[NoCommand EXCEPT !.type = "CompleteAction", !.id = id,
                       !.expectedVersion = v] :
        id \in ActionIds, v \in ExpectedVersions}
    \cup {[NoCommand EXCEPT !.type = "CancelAction", !.id = id, !.reason = r,
                       !.expectedVersion = v] :
        id \in ActionIds, r \in ReasonInputs, v \in ExpectedVersions}
    \cup {[NoCommand EXCEPT !.type = "CreatePolicy", !.id = id, !.name = n,
                       !.rules = ru] :
        id \in PolicyIds, n \in {<<" ">>, <<"p">>}, ru \in RulesInputs}
    \cup {[NoCommand EXCEPT !.type = t, !.id = id, !.expectedVersion = v] :
        t \in {"ActivatePolicy", "ResumePolicy"}, id \in PolicyIds,
        v \in ExpectedVersions}
    \cup {[NoCommand EXCEPT !.type = "SuspendPolicy", !.id = id, !.reason = r,
                       !.expectedVersion = v] :
        id \in PolicyIds, r \in ReasonInputs, v \in ExpectedVersions}
    \cup {[NoCommand EXCEPT !.type = "RevokePolicy", !.id = id, !.reason = r,
                       !.revokedBy = b, !.expectedVersion = v] :
        id \in PolicyIds, r \in ReasonInputs, b \in RevokedByInputs,
        v \in ExpectedVersions}

\* the part of a command the handler still reads after the aggregate operation
CommandHeader(cmd) ==
    [NoCommand EXCEPT !.type = cmd.type, !.id = cmd.id,
                      !.expectedVersion = cmd.expectedVersion]

IsCreate(cmd) == cmd.type \in {"CreateAction", "CreatePolicy"}
IsActionCommand(cmd) == cmd.type \in ActionCommandTypes

(***************************************************************************)
(* Command results                                                         *)
(***************************************************************************)
NoResult == [status |-> "none", code |-> "", rule |-> "", version |-> 0]

commandSuccess(version) ==
    [status |-> "success", code |-> "", rule |-> "", version |-> version]

commandFailure(code, rule) ==
    [status |-> "failure", code |-> code, rule |-> rule, version |-> 0]

\* an exception that leaves execute(): EntityNotFoundError or a database error
thrown(name) ==
    [status |-> "thrown", code |-> name, rule |-> "", version |-> 0]

\* CommandBus.execute around handler.execute: a result is passed on, an
\* exception is caught and answered with an INTERNAL_ERROR failure
CommandBus_execute(handlerOutcome) ==
    IF handlerOutcome.status = "thrown"
    THEN commandFailure("INTERNAL_ERROR", "")
    ELSE handlerOutcome

\* error-code mapping of the Action command handlers (update, complete, cancel)
ActionErrorCode(rule) ==
    IF rule = "action.version.mismatch"
    THEN "OPTIMISTIC_LOCK_FAILED" ELSE "BUSINESS_RULE_VIOLATION"

\* error-code mapping of the Policy command handlers and of the create handlers
PolicyErrorCode(rule) == "BUSINESS_RULE_VIOLATION"

(***************************************************************************)
(* The aggregate operation a command handler invokes on the loaded row     *)
(***************************************************************************)
AggregateOp(cmd, row) ==
    CASE cmd.type = "CreateAction" ->
           ActionCreate(cmd.id, cmd.name, cmd.description, cmd.metadata)
      [] cmd.type = "UpdateAction" ->
           ActionUpdate(cmd.id, row,
               [name |-> cmd.name, description |-> cmd.description,
                metadata |-> cmd.metadata], cmd.expectedVersion)
      [] cmd.type = "CompleteAction" ->
           ActionComplete(cmd.id, row, cmd.expectedVersion)
      [] cmd.type = "CancelAction" ->
           ActionCancel(cmd.id, row, cmd.reason, cmd.expectedVersion)
      [] cmd.type = "CreatePolicy" -> PolicyCreate(cmd.id, cmd.name, cmd.rules)
      [] cmd.type = "ActivatePolicy" ->
           PolicyActivate(cmd.id, row, cmd.expectedVersion)
      [] cmd.type = "SuspendPolicy" ->
           PolicySuspend(cmd.id, row, cmd.reason, cmd.expectedVersion)
      [] cmd.type = "ResumePolicy" ->
           PolicyResume(cmd.id, row, cmd.expectedVersion)
      [] cmd.type = "RevokePolicy" ->
           PolicyRevoke(cmd.id, row, cmd.reason, cmd.revokedBy, cmd.expectedVersion)

\* the aggregate the create handlers rebuild with fromState from the raw payload
CreatedAggregate(cmd) ==
    IF cmd.type = "CreateAction"
    THEN [name |-> cmd.name,
          description |-> IF cmd.description = Undef THEN Null ELSE cmd.description,
          metadata |-> IF cmd.metadata = Undef THEN Null ELSE cmd.metadata,
          status |-> "active", version |-> 1]
    ELSE [NoPolicyRow EXCEPT !.name = cmd.name, !.rules = cmd.rules,
                             !.status = "draft", !.version = 1]

findById(cmd) == IF IsActionCommand(cmd) THEN actions[cmd.id] ELSE policies[cmd.id]

(***************************************************************************)
(* EventStoreService                                                       *)
(***************************************************************************)
NullTime == -1
EmptyTable == [i \in {} |-> 0]
DefaultMaxRetries == 5

\* Row ids are generated values (uuid): <<aggregate id, k>> names the k-th row
\* inserted for that aggregate, so ids are unique and carry no global order.
NextId(table, aggregateId) ==
    <<aggregateId, Cardinality({i \in DOMAIN table : i[1] = aggregateId}) + 1>>

\* variant: the outbox row carries an id that is not the id of the event row
outboxEventId_Unrelated(insertedEvent) == <<insertedEvent.aggregateId, 0>>

\* event_id of the outbox record: the id the event insert returned
outboxEventId(insertedEvent) == insertedEvent.id

\* variant: the outbox insert is left out of the transaction
persistEventInTransaction_NoOutbox(tables, event) ==
    LET eventId == NextId(tables.events, event.aggregateId)
        insertedEvent == [id |-> eventId] @@ event
    IN [events |-> (eventId :> insertedEvent) @@ tables.events,
        outbox |-> tables.outbox]

\* persistEventInTransaction: insert the domain event, then its outbox row
persistEventInTransaction(tables, event) ==
    LET eventId == NextId(tables.events, event.aggregateId)
        insertedEvent == [id |-> eventId] @@ event
        outboxId == NextId(tables.outbox, event.aggregateId)
        outboxRecord ==
            [id |-> outboxId, eventId |-> outboxEventId(insertedEvent),
             eventType |-> event.eventType,
             aggregateType |-> event.aggregateType,
             aggregateId |-> event.aggregateId,
             status |-> "pending", retryCount |-> 0,
             maxRetries |-> DefaultMaxRetries, lastError |-> "",
             processedAt |-> NullTime, nextRetryAt |-> NullTime]
    IN [events |-> (eventId :> insertedEvent) @@ tables.events,
        outbox |-> (outboxId :> outboxRecord) @@ tables.outbox]

\* created_at of an outbox row (DEFAULT now()): the rows of an aggregate are
\* inserted one transaction after the other, in the order of their ids
createdAt(row) == row.id[2]

RECURSIVE persistEventsWithTransaction(_, _)
persistEventsWithTransaction(tables, events) ==
    IF events = <<>> THEN tables
    ELSE persistEventsWithTransaction(
            persistEventInTransaction(tables, Head(events)), Tail(events))

(***************************************************************************)
(* Command handlers: load, run the aggregate operation, then save/update   *)
(***************************************************************************)
\* row lock taken by the UPDATE of an open transaction on the same row
RowLocked(w, id) ==
    \E o \in Writers \ {w} : wpc[o] = "txState" /\ wcmd[o].id = id

\* execute() returns or throws: the response is kept, the locals are gone
Finish(w, result) ==
    /\ wpc' = [wpc EXCEPT ![w] = "done"]
    /\ wresult' = [wresult EXCEPT ![w] = result]
    /\ wagg' = [wagg EXCEPT ![w] = NoActionRow]
    /\ wevents' = [wevents EXCEPT ![w] = <<>>]

\* execute() up to its first database write: findById + aggregate operation
Execute(w, cmd) ==
    /\ wpc[w] \in {"idle", "done"}
    /\ cmd.id \in scope
    /\ LET row == findById(cmd)
           r   == AggregateOp(cmd, row)
           mapCode(rule) == IF IsActionCommand(cmd) /\ ~IsCreate(cmd)
                            THEN ActionErrorCode(rule) ELSE PolicyErrorCode(rule)
       IN /\ IsCreate(cmd) =>
                \* uuidv7(): the new id is not the id of any row or open insert
                /\ row.status = "absent"
                /\ \A o \in Writers : ~(IsCreate(wcmd[o]) /\ wcmd[o].id = cmd.id)
          /\ wcmd' = [wcmd EXCEPT ![w] = CommandHeader(cmd)]
          /\ IF ~IsCreate(cmd) /\ row.status = "absent"
             THEN /\ Finish(w, IF IsActionCommand(cmd)
                               THEN commandFailure("NOT_FOUND", "")
                               ELSE thrown("EntityNotFoundError"))
             ELSE IF ~r.success
             THEN Finish(w, commandFailure(mapCode(r.rule), r.rule))
             ELSE IF cmd.type = "UpdateAction" /\ r.events = <<>>
             THEN Finish(w, commandSuccess(r.state.version))
             ELSE /\ wagg' = [wagg EXCEPT ![w] =
                        IF IsCreate(cmd) THEN CreatedAggregate(cmd) ELSE r.state]
                  /\ wevents' = [wevents EXCEPT ![w] = r.events]
                  /\ wpc' = [wpc EXCEPT ![w] = "tx"]
                  /\ wresult' = [wresult EXCEPT ![w] = NoResult]
    /\ UNCHANGED <<tableVars, eventOutbox, commitLog, scope, outboxVars, workerVars>>

\* withTransaction: the INSERT / UPDATE ... WHERE id = state.id of the repository
TxWriteState(w) ==
    /\ wpc[w] = "tx"
    /\ ~RowLocked(w, wcmd[w].id)
    /\ IF ~IsCreate(wcmd[w]) /\ findById(wcmd[w]).status = "absent"
       THEN Finish(w, thrown("EntityNotFoundError"))
       ELSE /\ wpc' = [wpc EXCEPT ![w] = "txState"]
            /\ UNCHANGED <<wresult, wagg, wevents>>
    /\ UNCHANGED <<tableVars, eventOutbox, wcmd, commitLog,
                   scope, outboxVars, workerVars>>

\* the state row a committed repository write leaves behind
RepoWrite(row, state) == state

\* await persistEvents(events), then COMMIT: the state row, the event rows and
\* the outbox rows become visible together
TxCommit(w) ==
    /\ wpc[w] = "txState"
    /\ LET cmd == wcmd[w]
           tables == persistEventsWithTransaction(
                        [events |-> domainEvents, outbox |-> eventOutbox],
                        wevents[w])
       IN /\ IF IsActionCommand(cmd)
             THEN /\ actions' = [actions EXCEPT ![cmd.id] = RepoWrite(@, wagg[w])]
                  /\ UNCHANGED policies
             ELSE /\ policies' = [policies EXCEPT ![cmd.id] = RepoWrite(@, wagg[w])]
                  /\ UNCHANGED actions
          /\ domainEvents' = tables.events
          /\ eventOutbox' = tables.outbox
          /\ commitLog' = [commitLog EXCEPT ![cmd.id] = Append(@, wagg[w].version)]
          /\ Finish(w, commandSuccess(wagg[w].version))
    /\ UNCHANGED <<wcmd, scope, outboxVars, workerVars>>

\* the writes of the transaction of w at the moment it fails: the state row,
\* and the event and outbox rows if persistEvents had inserted them
AbortPoints == {"persistEvents", "commit"}

TxWritten(w, at) ==
    LET cmd == wcmd[w]
        tables == IF at = "commit"
                  THEN persistEventsWithTransaction(
                          [events |-> domainEvents, outbox |-> eventOutbox],
                          wevents[w])
                  ELSE [events |-> domainEvents, outbox |-> eventOutbox]
    IN [actions  |-> IF IsActionCommand(cmd)
                     THEN [actions EXCEPT ![cmd.id] = RepoWrite(@, wagg[w])]
                     ELSE actions,
        policies |-> IF IsActionCommand(cmd)
                     THEN policies
                     ELSE [policies EXCEPT ![cmd.id] = RepoWrite(@, wagg[w])],
        events   |-> tables.events,
        outbox   |-> tables.outbox]

\* variant: the writes made before the failure stay
rollback_KeepWrites(before, written) == written

\* db.transaction: a rejected callback is answered with ROLLBACK, the tables
\* are what they were before the transaction
rollback(before, written) == before

\* an insert of persistEvents (or the COMMIT) fails after the state write:
\* ROLLBACK, the error reaches the caller
TxAbort(w, at) ==
    /\ wpc[w] = "txState"
    /\ LET after == rollback([actions |-> actions, policies |-> policies,
                              events |-> domainEvents, outbox |-> eventOutbox],
                             TxWritten(w, at))
       IN /\ actions' = after.actions
          /\ policies' = after.policies
          /\ domainEvents' = after.events
          /\ eventOutbox' = after.outbox
    /\ Finish(w, thrown("DatabaseError"))
    /\ UNCHANGED <<wcmd, commitLog, scope, outboxVars, workerVars>>

(***************************************************************************)
(* Process sets of the dispatcher and of the worker                        *)
(***************************************************************************)
Dispatchers == {"d1", "d2"}
Executions  == {"j1", "j2"}
HandlerNames == {"ActionAuditHandler", "ProjectionHandler"}
Pairs(events) == events \X HandlerNames

(***************************************************************************)
(* Quiescent values of the three groups of variables                       *)
(***************************************************************************)
IdleWrite ==
    /\ wpc = [w \in Writers |-> "idle"]
    /\ wcmd = [w \in Writers |-> NoCommand]
    /\ wagg = [w \in Writers |-> NoActionRow]
    /\ wevents = [w \in Writers |-> <<>>]
    /\ wresult = [w \in Writers |-> NoResult]

IdleOutbox ==
    /\ now = 0
    /\ dpc = [d \in Dispatchers |-> "idle"]
    /\ isProcessing = [d \in Dispatchers |-> FALSE]
    /\ isShuttingDown = [d \in Dispatchers |-> FALSE]
    /\ dbatch = [d \in Dispatchers |-> {}]
    /\ dtasks = {}
    /\ crashes = 0
    /\ queueJobs = {}
    /\ enqueueLog = <<>>

\* no handler has been invoked, no aggregate is loaded, no event is on its way
NoTrip == [stage |-> "none"]

IdleMemory ==
    /\ failureAttempts = <<>>
    /\ simulateFailure = FALSE
    /\ uncommittedEvents = <<>>
    /\ trip = NoTrip

IdleWorker ==
    /\ registry = <<>>
    /\ ledgerUnique = TRUE
    /\ jpc = [j \in Executions |-> "idle"]
    /\ jevent = [j \in Executions |-> 0]
    /\ hpc = [j \in Executions |-> <<>>]
    /\ processedEvents = [p \in Pairs({}) |-> 0]
    /\ auditLog = [p \in Pairs({}) |-> 0]
    /\ attemptsMade = 0
    /\ deliveries = 0
    /\ IdleMemory

(***************************************************************************)
(* SpecWrite: the write path                                               *)
(***************************************************************************)
InitWrite ==
    /\ actions = [id \in ActionIds |-> NoActionRow]
    /\ policies = [id \in PolicyIds |-> NoPolicyRow]
    /\ domainEvents = EmptyTable
    /\ eventOutbox = EmptyTable
    /\ commitLog = [id \in AggregateIds |-> <<>>]
    /\ scope \in {ActionIds, PolicyIds}
    /\ IdleWrite /\ IdleOutbox /\ IdleWorker

NextWrite ==
    \/ \E w \in Writers, cmd \in Commands : Execute(w, cmd)
    \/ \E w \in Writers : TxWriteState(w)
    \/ \E w \in Writers : TxCommit(w)
    \/ \E w \in Writers, at \in AbortPoints : TxAbort(w, at)

SpecWrite == InitWrite /\ [][NextWrite]_vars

(***************************************************************************)
(* SpecAggregate: one aggregate instance in memory (ActionAggregate or     *)
(* PolicyAggregate, chosen by scope) to which operations are applied one   *)
(* after the other; wagg is its state, uncommittedEvents its event list,    *)
(* wevents the events of the AggregateResult of the last operation         *)
(***************************************************************************)
MaxAggVersion == 5   \* operations are applied while the version is below it

AggWriter == "w1"

\* the commands with every expected version up to MaxAggVersion
\* and, for the commands of an action that carry metadata, with a metadata
\* object supplied as well
AggMetadataInputs == {Undef, <<"m">>}

AggCommands ==
    LET withMetadata(c) ==
            IF c.type \in {"CreateAction", "UpdateAction"}
            THEN {[c EXCEPT !.metadata = m] : m \in AggMetadataInputs}
            ELSE {c}
    IN UNION {withMetadata(c) : c \in {x \in Commands : IsCreate(x)}}
       \cup UNION {withMetadata([c EXCEPT !.expectedVersion = v]) :
                     c \in {x \in Commands : ~IsCreate(x)}, v \in 1..MaxAggVersion}

\* the result of the operation as the caller of the aggregate sees it
AggResult(cmd, r) ==
    IF r.success THEN commandSuccess(r.state.version)
    ELSE commandFailure(
            IF IsActionCommand(cmd) /\ ~IsCreate(cmd)
            THEN ActionErrorCode(r.rule) ELSE PolicyErrorCode(r.rule), r.rule)

\* AggregateRoot.apply(event): push on _uncommittedEvents
apply(uncommitted, events) == uncommitted \o events

\* AggregateRoot.getUncommittedEvents(): a copy of the whole list
getUncommittedEvents(uncommitted) == uncommitted

\* events of the AggregateResult: an operation that has applied its event
\* returns aggregateSuccess(this.getUncommittedEvents()); an update without
\* changes returns aggregateSuccess([]), a failure carries no events
returnedEvents(uncommitted, r) ==
    IF r.success /\ r.events # <<>>
    THEN getUncommittedEvents(apply(uncommitted, r.events))
    ELSE <<>>

\* the static create factory on an empty slot, an instance method afterwards;
\* nothing calls clearUncommittedEvents
Operate(cmd) ==
    /\ cmd.id \in scope
    /\ wagg[AggWriter].version < MaxAggVersion
    /\ IsCreate(cmd) <=> wagg[AggWriter].status = "absent"
    /\ LET r == AggregateOp(cmd, wagg[AggWriter])
       IN /\ wagg' = [wagg EXCEPT ![AggWriter] = r.state]
          /\ uncommittedEvents' = IF r.success
                                  THEN apply(uncommittedEvents, r.events)
                                  ELSE uncommittedEvents
          /\ wevents' = [wevents EXCEPT ![AggWriter] =
                            returnedEvents(uncommittedEvents, r)]
          /\ wcmd' = [wcmd EXCEPT ![AggWriter] = cmd]
          /\ wresult' = [wresult EXCEPT ![AggWriter] = AggResult(cmd, r)]
    /\ UNCHANGED <<tableVars, eventOutbox, wpc, commitLog, scope, outboxVars,
                   registry, ledgerUnique, jpc, jevent, hpc, processedEvents,
                   auditLog, attemptsMade, deliveries, failureAttempts,
                   simulateFailure, trip>>

NextAggregate == \E cmd \in AggCommands : Operate(cmd)

SpecAggregate == InitWrite /\ [][NextAggregate]_vars

(***************************************************************************)
(* OutboxProcessorService                                                  *)
(***************************************************************************)
POLL_INTERVAL_MS    == 1000
BATCH_SIZE          == 100
BASE_RETRY_DELAY_MS == 1000
MAX_RETRY_DELAY_MS  == 300000

MaxTicks   == 3     \* the clock runs up to MaxTicks poll intervals
MaxCrashes == 1     \* dispatcher process deaths per run

Min(a, b) == IF a < b THEN a ELSE b

\* Math.min(BASE_RETRY_DELAY_MS * Math.pow(2, newRetryCount), MAX_RETRY_DELAY_MS)
RetryDelay(newRetryCount) ==
    Min(BASE_RETRY_DELAY_MS * (2 ^ newRetryCount), MAX_RETRY_DELAY_MS)

\* WHERE clause of the claim SELECT, evaluated at time t; a NULL next_retry_at
\* makes lt(next_retry_at, now) unknown, which filters the row out
Eligible(row, t) ==
    /\ \/ row.status = "pending"
       \/ /\ row.status = "processing"
          /\ row.nextRetryAt # NullTime
          /\ row.nextRetryAt < t
    /\ row.retryCount < row.maxRetries

\* SELECT ... LIMIT BATCH_SIZE without ORDER BY: any BATCH_SIZE eligible rows
ClaimSelections(table, t) ==
    LET eligible == {id \in DOMAIN table : Eligible(table[id], t)}
        n == Min(BATCH_SIZE, Cardinality(eligible))
    IN {S \in SUBSET eligible : Cardinality(S) = n}

Tasks(d) == {t \in dtasks : t.d = d}

\* a processEvent call settles: Promise.all resolves when the last awaited call
\* has resolved and rejects with the first rejection; the finally block of
\* processOutbox then clears isProcessing, the other calls keep running
Settle(t, rejected) ==
    LET rest == dtasks \ {t}
    IN IF t.orphan
       THEN /\ dtasks' = rest
            /\ UNCHANGED <<dpc, isProcessing>>
       ELSE IF rejected
       THEN /\ dtasks' = {IF u.d = t.d THEN [u EXCEPT !.orphan = TRUE] ELSE u :
                             u \in rest}
            /\ dpc' = [dpc EXCEPT ![t.d] = "idle"]
            /\ isProcessing' = [isProcessing EXCEPT ![t.d] = FALSE]
       ELSE /\ dtasks' = rest
            /\ IF \E u \in rest : u.d = t.d /\ ~u.orphan
               THEN UNCHANGED <<dpc, isProcessing>>
               ELSE /\ dpc' = [dpc EXCEPT ![t.d] = "idle"]
                    /\ isProcessing' = [isProcessing EXCEPT ![t.d] = FALSE]

\* the columns of a selected row that processEvent and markFailed read
EntryOf(row) ==
    [id |-> row.id, eventId |-> row.eventId, retryCount |-> row.retryCount,
     maxRetries |-> row.maxRetries]

\* variant: the guard looks at isProcessing only
processOutboxSkips_IgnoreShutdown(d) == isProcessing[d]

\* first statement of processOutbox: if (isProcessing || isShuttingDown) return
processOutboxSkips(d) == isProcessing[d] \/ isShuttingDown[d]

\* setInterval callback / triggerProcessing: processOutbox through the SELECT
\* of claimPendingEvents; an empty result returns through the finally block
processOutbox(d) ==
    /\ dpc[d] = "idle"
    /\ ~processOutboxSkips(d)
    /\ \E S \in ClaimSelections(eventOutbox, now) :
          IF S = {}
          THEN UNCHANGED <<dbatch, dpc, isProcessing>>
          ELSE /\ dbatch' = [dbatch EXCEPT ![d] =
                                {EntryOf(eventOutbox[id]) : id \in S}]
               /\ dpc' = [dpc EXCEPT ![d] = "update"]
               /\ isProcessing' = [isProcessing EXCEPT ![d] = TRUE]
    /\ UNCHANGED <<tableVars, eventOutbox, writeVars, workerVars, now,
                   isShuttingDown, dtasks, crashes, queueJobs, enqueueLog>>

\* claimPendingEvents, second statement: UPDATE ... SET status = 'processing'
\* WHERE id IN (selected ids); then Promise.all starts processEvent per row
claimUpdate(d) ==
    /\ dpc[d] = "update"
    /\ eventOutbox' = [id \in DOMAIN eventOutbox |->
                         IF \E e \in dbatch[d] : e.id = id
                         THEN [eventOutbox[id] EXCEPT !.status = "processing"]
                         ELSE eventOutbox[id]]
    /\ dtasks' = dtasks \cup {[d |-> d, entry |-> e, step |-> "add",
                               orphan |-> FALSE] : e \in dbatch[d]}
    /\ dbatch' = [dbatch EXCEPT ![d] = {}]
    /\ dpc' = [dpc EXCEPT ![d] = "run"]
    /\ UNCHANGED <<tableVars, writeVars, workerVars, now, isProcessing,
                   isShuttingDown, crashes, queueJobs, enqueueLog>>

\* the UPDATE of claimPendingEvents fails: processOutbox rejects
claimFails(d) ==
    /\ dpc[d] = "update"
    /\ dpc' = [dpc EXCEPT ![d] = "idle"]
    /\ isProcessing' = [isProcessing EXCEPT ![d] = FALSE]
    /\ dbatch' = [dbatch EXCEPT ![d] = {}]
    /\ UNCHANGED <<tableVars, eventOutbox, writeVars, workerVars, now,
                   isShuttingDown, dtasks, crashes, queueJobs, enqueueLog>>

\* variant: the row is marked completed whatever the outcome of the add
processEventStep_IgnoreAddError(addOk) == "markCompleted"

\* processEvent: markCompleted after a resolved add, the catch block otherwise
processEventStep(addOk) == IF addOk THEN "markCompleted" ELSE "markFailed"

\* UPDATE of markCompleted
markCompletedRow(row, t) ==
    [row EXCEPT !.status = "completed", !.processedAt = t]

\* UPDATE of markFailed, computed from the entry the claim SELECT returned
markFailedRow(row, entry, t) ==
    LET newRetryCount == entry.retryCount + 1
    IN IF newRetryCount >= entry.maxRetries
       THEN [row EXCEPT !.status = "failed", !.retryCount = newRetryCount,
                        !.lastError = "error"]
       ELSE [row EXCEPT !.status = "pending", !.retryCount = newRetryCount,
                        !.lastError = "error",
                        !.nextRetryAt = t + RetryDelay(newRetryCount)]

\* variant: the job id is derived from the attempt instead of the event alone
queueJob_PerAttempt(entry) ==
    [id |-> <<entry.eventId, entry.retryCount>>, eventId |-> entry.eventId]

\* the job processEvent hands to eventsQueue.add: data.eventId and the option
\* jobId are both outboxEntry.eventId
queueJob(entry) == [id |-> entry.eventId, eventId |-> entry.eventId]

\* Queue.add with a jobId option: a job whose id is already in the queue is not
\* added again
queueAddJob(jobs, job) ==
    IF \E j \in jobs : j.id = job.id THEN jobs ELSE jobs \cup {job}

\* eventsQueue.add(...) of processEvent: the add resolves (ok) or rejects
queueAdd(t, ok) ==
    /\ t \in dtasks /\ t.step = "add"
    /\ dtasks' = (dtasks \ {t}) \cup {[t EXCEPT !.step = processEventStep(ok)]}
    /\ IF ok
       THEN /\ queueJobs' = queueAddJob(queueJobs, queueJob(t.entry))
            /\ enqueueLog' = IF queueJobs' = queueJobs
                             THEN enqueueLog
                             ELSE Append(enqueueLog, t.entry.eventId)
       ELSE UNCHANGED <<queueJobs, enqueueLog>>
    /\ UNCHANGED <<tableVars, eventOutbox, writeVars, workerVars, now, dpc,
                   isProcessing, isShuttingDown, dbatch, crashes>>

\* markCompleted(outboxEntry.id); a rejected UPDATE enters the catch block
markCompleted(t, ok) ==
    /\ t \in dtasks /\ t.step = "markCompleted"
    /\ IF ok
       THEN /\ eventOutbox' = [eventOutbox EXCEPT ![t.entry.id] =
                                  markCompletedRow(@, now)]
            /\ Settle(t, FALSE)
       ELSE /\ dtasks' = (dtasks \ {t}) \cup {[t EXCEPT !.step = "markFailed"]}
            /\ UNCHANGED <<eventOutbox, dpc, isProcessing>>
    /\ UNCHANGED <<tableVars, writeVars, workerVars, now, isShuttingDown,
                   dbatch, crashes, queueJobs, enqueueLog>>

\* markFailed(outboxEntry, error) in the catch block; a rejected UPDATE makes
\* processEvent reject
markFailed(t, ok) ==
    /\ t \in dtasks /\ t.step = "markFailed"
    /\ IF ok
       THEN /\ eventOutbox' = [eventOutbox EXCEPT ![t.entry.id] =
                                  markFailedRow(@, t.entry, now)]
            /\ Settle(t, FALSE)
       ELSE /\ UNCHANGED eventOutbox
            /\ Settle(t, TRUE)
    /\ UNCHANGED <<tableVars, writeVars, workerVars, now, isShuttingDown,
                   dbatch, crashes, queueJobs, enqueueLog>>

\* onModuleDestroy -> stopPolling
stopPolling(d) ==
    /\ dpc[d] # "down" /\ ~isShuttingDown[d]
    /\ isShuttingDown' = [isShuttingDown EXCEPT ![d] = TRUE]
    /\ UNCHANGED <<tableVars, eventOutbox, writeVars, workerVars, now, dpc,
                   isProcessing, dbatch, dtasks, crashes, queueJobs, enqueueLog>>

\* the dispatcher process dies: its memory and its running calls are gone,
\* the rows and the queue stay as they are
crash(d) ==
    /\ dpc[d] # "down" /\ crashes < MaxCrashes
    /\ crashes' = crashes + 1
    /\ dpc' = [dpc EXCEPT ![d] = "down"]
    /\ isProcessing' = [isProcessing EXCEPT ![d] = FALSE]
    /\ isShuttingDown' = [isShuttingDown EXCEPT ![d] = FALSE]
    /\ dbatch' = [dbatch EXCEPT ![d] = {}]
    /\ dtasks' = dtasks \ Tasks(d)
    /\ UNCHANGED <<tableVars, eventOutbox, writeVars, workerVars, now,
                   queueJobs, enqueueLog>>

\* the process is started again: onModuleInit -> startPolling
restart(d) ==
    /\ dpc[d] = "down"
    /\ dpc' = [dpc EXCEPT ![d] = "idle"]
    /\ UNCHANGED <<tableVars, eventOutbox, writeVars, workerVars, now,
                   isProcessing, isShuttingDown, dbatch, dtasks, crashes,
                   queueJobs, enqueueLog>>

\* one poll interval passes
advanceClock ==
    /\ now < MaxTicks * POLL_INTERVAL_MS
    /\ now' = now + POLL_INTERVAL_MS
    /\ UNCHANGED <<tableVars, eventOutbox, writeVars, workerVars, dpc,
                   isProcessing, isShuttingDown, dbatch, dtasks, crashes,
                   queueJobs, enqueueLog>>

(***************************************************************************)
(* SpecOutbox: dispatchers over the rows the write path has committed      *)
(***************************************************************************)
\* the command whose committed transaction produced the rows of the outbox
SeedCommand ==
    [NoCommand EXCEPT !.type = "CreateAction", !.id = "a1", !.name = <<"a">>]

SeedTables ==
    persistEventsWithTransaction(
        [events |-> EmptyTable, outbox |-> EmptyTable],
        AggregateOp(SeedCommand, NoActionRow).events)

InitOutbox ==
    /\ actions = [id \in ActionIds |-> CreatedAggregate(SeedCommand)]
    /\ policies = [id \in PolicyIds |-> NoPolicyRow]
    /\ domainEvents = SeedTables.events
    /\ eventOutbox = SeedTables.outbox
    /\ commitLog = [id \in AggregateIds |->
                      IF id \in ActionIds THEN <<1>> ELSE <<>>]
    /\ scope = ActionIds
    /\ IdleWrite /\ IdleOutbox /\ IdleWorker

NextOutbox ==
    \/ \E d \in Dispatchers : processOutbox(d)
    \/ \E d \in Dispatchers : claimUpdate(d)
    \/ \E d \in Dispatchers : claimFails(d)
    \/ \E t \in dtasks, ok \in BOOLEAN : queueAdd(t, ok)
    \/ \E t \in dtasks, ok \in BOOLEAN : markCompleted(t, ok)
    \/ \E t \in dtasks, ok \in BOOLEAN : markFailed(t, ok)
    \/ \E d \in Dispatchers : stopPolling(d)
    \/ \E d \in Dispatchers : crash(d)
    \/ \E d \in Dispatchers : restart(d)
    \/ advanceClock

SpecOutbox == InitOutbox /\ [][NextOutbox]_vars

(***************************************************************************)
(* SpecBatch: one dispatcher over the rows of an action that was created   *)
(* and then updated: two rows per batch, within one poll interval          *)
(***************************************************************************)
BatchDispatchers == {"d1"}

SeedUpdate ==
    ActionUpdate("a1", CreatedAggregate(SeedCommand),
                 [name |-> <<"b">>, description |-> Undef, metadata |-> Undef], 1)

BatchTables == persistEventsWithTransaction(SeedTables, SeedUpdate.events)

InitBatch ==
    /\ actions = [id \in ActionIds |-> SeedUpdate.state]
    /\ policies = [id \in PolicyIds |-> NoPolicyRow]
    /\ domainEvents = BatchTables.events
    /\ eventOutbox = BatchTables.outbox
    /\ commitLog = [id \in AggregateIds |->
                      IF id \in ActionIds THEN <<1, 2>> ELSE <<>>]
    /\ scope = ActionIds
    /\ IdleWrite /\ IdleOutbox /\ IdleWorker

NextBatch ==
    \/ \E d \in BatchDispatchers : processOutbox(d)
    \/ \E d \in BatchDispatchers : claimUpdate(d)
    \/ \E d \in BatchDispatchers : claimFails(d)
    \/ \E t \in dtasks, ok \in BOOLEAN : queueAdd(t, ok)
    \/ \E t \in dtasks, ok \in BOOLEAN : markCompleted(t, ok)
    \/ \E t \in dtasks, ok \in BOOLEAN : markFailed(t, ok)

SpecBatch == InitBatch /\ [][NextBatch]_vars

(***************************************************************************)
(* EventHandlerRegistry and DomainEventsProcessor                          *)
(***************************************************************************)
MaxHandlers   == 2   \* handlers registered for the event type of the job
MaxDeliveries == 3   \* executions of the job: first delivery, then retries
                     \* and redeliveries

\* attempts option of the jobs the dispatcher adds
QueueAttempts == 3

\* the job the dispatcher has added for the seed event: jobId = eventId
JobEvent == CHOOSE e \in DOMAIN SeedTables.events : TRUE

\* process(): result of the job from the Promise.allSettled results; it throws
\* only if failures.length === handlers.length
jobResult(results) ==
    LET failures == {i \in 1..Len(results) : results[i] = "rejected"}
    IN IF failures # {} /\ Cardinality(failures) = Len(results)
       THEN "failed" ELSE "completed"

Settled(results) ==
    \A i \in 1..Len(results) : results[i] \in {"fulfilled", "rejected"}

\* variant: the ledger lookup never finds a row
isAlreadyProcessed_NeverFound(eventId, handlerName) == FALSE

\* isAlreadyProcessed: SELECT ... WHERE event_id = ? AND handler_name = ? LIMIT 1
isAlreadyProcessed(eventId, handlerName) ==
    processedEvents[<<eventId, handlerName>>] > 0

\* INSERT INTO processed_events ... ON CONFLICT DO NOTHING: rows afterwards
ledgerInsert(rows, unique) ==
    IF unique /\ rows > 0 THEN rows ELSE rows + 1

\* EventHandlerRegistry.register: push, whatever the list already holds
register(h) ==
    /\ Len(registry) < MaxHandlers
    /\ deliveries = 0
    /\ registry' = Append(registry, h)
    /\ UNCHANGED <<tableVars, eventOutbox, writeVars, outboxVars, memoryVars, ledgerUnique,
                   jpc, jevent, hpc, processedEvents, auditLog, attemptsMade,
                   deliveries>>

\* a worker takes the job: process() up to Promise.allSettled; without handlers
\* it returns at once
process(j) ==
    /\ jpc[j] \in {"idle", "completed", "failed"}
    /\ \E job \in queueJobs : jevent' = [jevent EXCEPT ![j] = job.eventId]
    /\ attemptsMade < QueueAttempts
    /\ deliveries < MaxDeliveries
    /\ deliveries' = deliveries + 1
    /\ hpc' = [hpc EXCEPT ![j] = [i \in 1..Len(registry) |-> "check"]]
    /\ jpc' = [jpc EXCEPT ![j] = IF registry = <<>> THEN "completed" ELSE "running"]
    /\ UNCHANGED <<tableVars, eventOutbox, writeVars, outboxVars, memoryVars, registry,
                   ledgerUnique, processedEvents, auditLog, attemptsMade>>

\* executeHandler: the ledger lookup; a hit skips the handler
checkProcessed(j, i) ==
    /\ jpc[j] = "running" /\ i \in 1..Len(hpc[j]) /\ hpc[j][i] = "check"
    /\ hpc' = [hpc EXCEPT ![j][i] =
                  IF isAlreadyProcessed(jevent[j], registry[i])
                  THEN "fulfilled" ELSE "handle"]
    /\ UNCHANGED <<tableVars, eventOutbox, writeVars, outboxVars, memoryVars, registry,
                   ledgerUnique, jpc, jevent, processedEvents, auditLog,
                   attemptsMade, deliveries>>

\* variant: the catch block swallows the error and the ledger row is written
executeHandlerStep_SwallowError(ok) == "mark"

\* executeHandler after handler.handle: markAsProcessed when it returned, the
\* catch block rethrows when it threw
executeHandlerStep(ok) == IF ok THEN "mark" ELSE "rejected"

\* audit rows one call of handle leaves: createAuditLog is its last awaited
\* statement, so a call that throws has inserted nothing
handlerEffect(ok) == IF ok THEN 1 ELSE 0

\* handler.handle(event): the audit handlers insert one audit row; a failing
\* handler throws and executeHandler rethrows
handle(j, i, ok) ==
    /\ jpc[j] = "running" /\ i \in 1..Len(hpc[j]) /\ hpc[j][i] = "handle"
    /\ auditLog' = [auditLog EXCEPT ![<<jevent[j], registry[i]>>] =
                       @ + handlerEffect(ok)]
    /\ hpc' = [hpc EXCEPT ![j][i] = executeHandlerStep(ok)]
    /\ UNCHANGED <<tableVars, eventOutbox, writeVars, outboxVars, memoryVars, registry,
                   ledgerUnique, jpc, jevent, processedEvents, attemptsMade,
                   deliveries>>

\* markAsProcessed after the handler returned; a failing insert is rethrown
markAsProcessed(j, i, ok) ==
    /\ jpc[j] = "running" /\ i \in 1..Len(hpc[j]) /\ hpc[j][i] = "mark"
    /\ IF ok
       THEN /\ processedEvents' =
                  [processedEvents EXCEPT ![<<jevent[j], registry[i]>>] =
                      ledgerInsert(@, ledgerUnique)]
            /\ hpc' = [hpc EXCEPT ![j][i] = "fulfilled"]
       ELSE /\ hpc' = [hpc EXCEPT ![j][i] = "rejected"]
            /\ UNCHANGED processedEvents
    /\ UNCHANGED <<tableVars, eventOutbox, writeVars, outboxVars, memoryVars, registry,
                   ledgerUnique, jpc, jevent, auditLog, attemptsMade, deliveries>>

\* Promise.allSettled has settled: process() returns or throws
finishJob(j) ==
    /\ jpc[j] = "running" /\ Settled(hpc[j])
    /\ jpc' = [jpc EXCEPT ![j] = jobResult(hpc[j])]
    /\ hpc' = [hpc EXCEPT ![j] = <<>>]
    /\ attemptsMade' = IF jobResult(hpc[j]) = "failed"
                       THEN attemptsMade + 1 ELSE attemptsMade
    /\ UNCHANGED <<tableVars, eventOutbox, writeVars, outboxVars, memoryVars, registry,
                   ledgerUnique, jevent, processedEvents, auditLog, deliveries>>

\* the worker process dies in the middle of the job; the queue will deliver
\* the stalled job again
workerDies(j) ==
    /\ jpc[j] = "running"
    /\ jpc' = [jpc EXCEPT ![j] = "idle"]
    /\ hpc' = [hpc EXCEPT ![j] = <<>>]
    /\ jevent' = [jevent EXCEPT ![j] = 0]
    /\ UNCHANGED <<tableVars, eventOutbox, writeVars, outboxVars, memoryVars, registry,
                   ledgerUnique, processedEvents, auditLog, attemptsMade,
                   deliveries>>

(***************************************************************************)
(* SpecWorker: executions of the job of one enqueued event                 *)
(***************************************************************************)
InitWorker ==
    /\ actions = [id \in ActionIds |-> CreatedAggregate(SeedCommand)]
    /\ policies = [id \in PolicyIds |-> NoPolicyRow]
    /\ domainEvents = SeedTables.events
    /\ eventOutbox = [id \in DOMAIN SeedTables.outbox |->
                        markCompletedRow(SeedTables.outbox[id], 0)]
    /\ commitLog = [id \in AggregateIds |->
                      IF id \in ActionIds THEN <<1>> ELSE <<>>]
    /\ scope = ActionIds
    /\ IdleWrite
    /\ now = 0
    /\ dpc = [d \in Dispatchers |-> "idle"]
    /\ isProcessing = [d \in Dispatchers |-> FALSE]
    /\ isShuttingDown = [d \in Dispatchers |-> FALSE]
    /\ dbatch = [d \in Dispatchers |-> {}]
    /\ dtasks = {}
    /\ crashes = 0
    /\ queueJobs = {[id |-> JobEvent, eventId |-> JobEvent]}
    /\ enqueueLog = <<JobEvent>>
    /\ registry = <<>>
    /\ ledgerUnique \in BOOLEAN
    /\ jpc = [j \in Executions |-> "idle"]
    /\ jevent = [j \in Executions |-> 0]
    /\ hpc = [j \in Executions |-> <<>>]
    /\ processedEvents = [p \in Pairs({JobEvent}) |-> 0]
    /\ auditLog = [p \in Pairs({JobEvent}) |-> 0]
    /\ attemptsMade = 0
    /\ deliveries = 0
    /\ IdleMemory

NextWorker ==
    \/ \E h \in HandlerNames : register(h)
    \/ \E j \in Executions : process(j)
    \/ \E j \in Executions, i \in 1..MaxHandlers : checkProcessed(j, i)
    \/ \E j \in Executions, i \in 1..MaxHandlers, ok \in BOOLEAN : handle(j, i, ok)
    \/ \E j \in Executions, i \in 1..MaxHandlers, ok \in BOOLEAN :
          markAsProcessed(j, i, ok)
    \/ \E j \in Executions : finishJob(j)
    \/ \E j \in Executions : workerDies(j)

SpecWorker == InitWorker /\ [][NextWorker]_vars

(***************************************************************************)
(* SpecRetry: the attempts of the job run one after the other on one       *)
(* worker; the only fault is a handler that throws                         *)
(***************************************************************************)
RetryExecutions == {"j1"}

NextRetry ==
    \/ \E h \in HandlerNames : register(h)
    \/ \E j \in RetryExecutions : process(j)
    \/ \E j \in RetryExecutions, i \in 1..MaxHandlers : checkProcessed(j, i)
    \/ \E j \in RetryExecutions, i \in 1..MaxHandlers, ok \in BOOLEAN :
          handle(j, i, ok)
    \/ \E j \in RetryExecutions, i \in 1..MaxHandlers : markAsProcessed(j, i, TRUE)
    \/ \E j \in RetryExecutions : finishJob(j)

SpecRetry == InitWorker /\ [][NextRetry]_vars

(***************************************************************************)
(* SpecAttempts: the queue's attempts of one job. A failed attempt is      *)
(* retried until QueueAttempts attempts are used up, a completed job is    *)
(* not run again; a handler may throw on every attempt but the last one    *)
(***************************************************************************)
NextAttempts ==
    \/ \E h \in HandlerNames : register(h)
    \/ \E j \in RetryExecutions : jpc[j] # "completed" /\ process(j)
    \/ \E j \in RetryExecutions, i \in 1..MaxHandlers : checkProcessed(j, i)
    \/ \E j \in RetryExecutions, i \in 1..MaxHandlers, ok \in BOOLEAN :
          /\ ok \/ attemptsMade < QueueAttempts - 1
          /\ handle(j, i, ok)
    \/ \E j \in RetryExecutions, i \in 1..MaxHandlers : markAsProcessed(j, i, TRUE)
    \/ \E j \in RetryExecutions : finishJob(j)

SpecAttempts == InitWorker /\ [][NextAttempts]_vars

(***************************************************************************)
(* PolicyAuditHandler with payload.simulateFailure                         *)
(***************************************************************************)
AuditHandlerName == "PolicyAuditHandler"

\* attemptKey = `${aggregateId}:${eventType}`
attemptKey(event) == <<event.aggregateId, event.eventType>>

\* handle() before createAuditLog: the invocation is counted under its key in
\* the failureAttempts map and throws while the count is below 3; the call
\* that goes on deletes the key
simulatedFailure(map, key, shouldSimulateFailure) ==
    IF ~shouldSimulateFailure
    THEN [map |-> map, ok |-> TRUE]
    ELSE LET currentAttempt == (IF key \in DOMAIN map THEN map[key] ELSE 0) + 1
         IN IF currentAttempt < 3
            THEN [map |-> (key :> currentAttempt) @@ map, ok |-> FALSE]
            ELSE [map |-> [k \in DOMAIN map \ {key} |-> map[k]], ok |-> TRUE]

\* PolicyAuditHandler.handle(event) called by executeHandler
PolicyAuditHandler_handle(j, i) ==
    /\ jpc[j] = "running" /\ i \in 1..Len(hpc[j]) /\ hpc[j][i] = "handle"
    /\ registry[i] = AuditHandlerName
    /\ LET r == simulatedFailure(failureAttempts,
                                 attemptKey(domainEvents[jevent[j]]),
                                 simulateFailure)
       IN /\ failureAttempts' = r.map
          /\ auditLog' = [auditLog EXCEPT ![<<jevent[j], registry[i]>>] =
                             @ + handlerEffect(r.ok)]
          /\ hpc' = [hpc EXCEPT ![j][i] = executeHandlerStep(r.ok)]
    /\ UNCHANGED <<tableVars, eventOutbox, writeVars, outboxVars, registry,
                   ledgerUnique, jpc, jevent, processedEvents, attemptsMade,
                   deliveries, simulateFailure, uncommittedEvents, trip>>

\* the application process is stopped and started again between two attempts
\* of the job: the new PolicyAuditHandler instance has an empty map
restartProcess ==
    /\ crashes < MaxCrashes
    /\ \A j \in Executions : jpc[j] # "running"
    /\ crashes' = crashes + 1
    /\ failureAttempts' = <<>>
    /\ UNCHANGED <<tableVars, eventOutbox, writeVars, now, dpc, isProcessing,
                   isShuttingDown, dbatch, dtasks, queueJobs, enqueueLog,
                   registry, ledgerUnique, jpc, jevent, hpc, processedEvents,
                   auditLog, attemptsMade, deliveries, simulateFailure,
                   uncommittedEvents, trip>>

(***************************************************************************)
(* SpecFault: the attempts of the job of a policy.created event whose only *)
(* handler is PolicyAuditHandler                                           *)
(***************************************************************************)
SeedPolicy ==
    [NoCommand EXCEPT !.type = "CreatePolicy", !.id = "p1", !.name = <<"a">>,
                      !.rules = <<"x:1">>]

FaultTables ==
    persistEventsWithTransaction(
        [events |-> EmptyTable, outbox |-> EmptyTable],
        AggregateOp(SeedPolicy, NoPolicyRow).events)

FaultEvent == CHOOSE e \in DOMAIN FaultTables.events : TRUE
FaultPair == <<FaultEvent, AuditHandlerName>>

InitFault ==
    /\ actions = [id \in ActionIds |-> NoActionRow]
    /\ policies = [id \in PolicyIds |-> CreatedAggregate(SeedPolicy)]
    /\ domainEvents = FaultTables.events
    /\ eventOutbox = [id \in DOMAIN FaultTables.outbox |->
                        markCompletedRow(FaultTables.outbox[id], 0)]
    /\ commitLog = [id \in AggregateIds |->
                      IF id \in PolicyIds THEN <<1>> ELSE <<>>]
    /\ scope = PolicyIds
    /\ IdleWrite
    /\ now = 0
    /\ dpc = [d \in Dispatchers |-> "idle"]
    /\ isProcessing = [d \in Dispatchers |-> FALSE]
    /\ isShuttingDown = [d \in Dispatchers |-> FALSE]
    /\ dbatch = [d \in Dispatchers |-> {}]
    /\ dtasks = {}
    /\ crashes = 0
    /\ queueJobs = {[id |-> FaultEvent, eventId |-> FaultEvent]}
    /\ enqueueLog = <<FaultEvent>>
    /\ registry = <<AuditHandlerName>>
    /\ ledgerUnique \in BOOLEAN
    /\ jpc = [j \in Executions |-> "idle"]
    /\ jevent = [j \in Executions |-> 0]
    /\ hpc = [j \in Executions |-> <<>>]
    /\ processedEvents = [p \in {FaultPair} |-> 0]
    /\ auditLog = [p \in {FaultPair} |-> 0]
    /\ attemptsMade = 0
    /\ deliveries = 0
    /\ failureAttempts = <<>>
    /\ simulateFailure \in BOOLEAN
    /\ uncommittedEvents = <<>>
    /\ trip = NoTrip

NextFault ==
    \/ \E j \in RetryExecutions : jpc[j] # "completed" /\ process(j)
    \/ \E j \in RetryExecutions, i \in 1..MaxHandlers : checkProcessed(j, i)
    \/ \E j \in RetryExecutions, i \in 1..MaxHandlers :
          PolicyAuditHandler_handle(j, i)
    \/ \E j \in RetryExecutions, i \in 1..MaxHandlers : markAsProcessed(j, i, TRUE)
    \/ \E j \in RetryExecutions : finishJob(j)
    \/ restartProcess

SpecFault == InitFault /\ [][NextFault]_vars

(***************************************************************************)
(* The way of one event from the aggregate to a handler. Payloads are      *)
(* JSON objects: functions from field names to values                      *)
(***************************************************************************)
\* EventMetadata of the commands of two requests
TripMetadata ==
    {[correlationId |-> c, actor |-> "u1", timestamp |-> 0, version |-> 1] :
        c \in {"c1", "c2"}}

\* payloads of action.created events (ActionAggregate.create): description
\* and metadata are left out when the command did not carry them (undefined
\* is not serialised)
CreatedPayloads ==
    {p @@ d @@ m :
        p \in {[actionId |-> "a1", name |-> n, version |-> 1] :
                  n \in {<<"a">>, <<"b">>}},
        d \in {<<>>, [description |-> <<"d">>]},
        m \in {<<>>, [metadata |-> [note |-> <<"m">>]]}}

\* payloads of action.updated events (ActionAggregate.update)
UpdatedPayloads ==
    {[actionId |-> "a1", changes |-> c, newVersion |-> v] :
        c \in {[name |-> [from |-> <<"a">>, to |-> <<"b">>]],
               [description |-> [from |-> Null, to |-> <<"d">>]],
               [metadata |-> [from |-> [note |-> <<"x">>],
                              to |-> [note |-> <<"m">>]]],
               [name |-> [from |-> <<"b">>, to |-> <<"a">>],
                description |-> [from |-> <<"d">>, to |-> Null]]},
        v \in {2, 3}}

TripEvent(eventType, payload, metadata) ==
    [eventType |-> eventType, aggregateType |-> "Action", aggregateId |-> "a1",
     payload |-> payload, metadata |-> metadata]

TripEvents ==
    {TripEvent("action.created", p, md) :
        p \in CreatedPayloads, md \in TripMetadata}
    \cup {TripEvent("action.updated", p, md) :
             p \in UpdatedPayloads, md \in TripMetadata}

\* persistEventInTransaction: the domain_events record
domainEventRecord(event, id) ==
    [id |-> id, aggregateType |-> event.aggregateType,
     aggregateId |-> event.aggregateId, eventType |-> event.eventType,
     eventVersion |-> event.metadata.version, payload |-> event.payload,
     metadata |-> event.metadata]

\* persistEventInTransaction: the event_outbox record;
\* payload: { ...event.payload, metadata: event.metadata }
outboxRecord(event, insertedId) ==
    [eventId |-> insertedId, eventType |-> event.eventType,
     aggregateType |-> event.aggregateType, aggregateId |-> event.aggregateId,
     payload |-> [metadata |-> event.metadata] @@ event.payload,
     status |-> "pending"]

\* processEvent: the data of the job added for an outbox entry
jobData(outboxEntry) ==
    [eventId |-> outboxEntry.eventId, eventType |-> outboxEntry.eventType,
     aggregateType |-> outboxEntry.aggregateType,
     aggregateId |-> outboxEntry.aggregateId, payload |-> outboxEntry.payload]

\* process(job): the IDomainEvent handed to the handlers
handlerEvent(data) ==
    [eventType |-> data.eventType, aggregateType |-> data.aggregateType,
     aggregateId |-> data.aggregateId, payload |-> data.payload,
     metadata |-> IF "metadata" \in DOMAIN data.payload
                  THEN data.payload.metadata
                  ELSE [correlationId |-> data.eventId, actor |-> "system",
                        timestamp |-> 0, version |-> 1]]

TripPersist ==
    /\ trip.stage = "created"
    /\ LET id == <<trip.event.aggregateId, 1>>
       IN trip' = [trip EXCEPT !.stage = "persisted",
                               !.row = domainEventRecord(trip.event, id),
                               !.outbox = outboxRecord(trip.event, id)]
    /\ UNCHANGED <<tableVars, eventOutbox, writeVars, outboxVars, registry,
                   ledgerUnique, jpc, jevent, hpc, processedEvents, auditLog,
                   attemptsMade, deliveries, failureAttempts, simulateFailure,
                   uncommittedEvents>>

TripEnqueue ==
    /\ trip.stage = "persisted"
    /\ trip' = [trip EXCEPT !.stage = "queued", !.job = jobData(trip.outbox)]
    /\ UNCHANGED <<tableVars, eventOutbox, writeVars, outboxVars, registry,
                   ledgerUnique, jpc, jevent, hpc, processedEvents, auditLog,
                   attemptsMade, deliveries, failureAttempts, simulateFailure,
                   uncommittedEvents>>

TripProcess ==
    /\ trip.stage = "queued"
    /\ trip' = [trip EXCEPT !.stage = "handled",
                            !.received = handlerEvent(trip.job)]
    /\ UNCHANGED <<tableVars, eventOutbox, writeVars, outboxVars, registry,
                   ledgerUnique, jpc, jevent, hpc, processedEvents, auditLog,
                   attemptsMade, deliveries, failureAttempts, simulateFailure,
                   uncommittedEvents>>

(***************************************************************************)
(* SpecTrip: one event is persisted, enqueued and handed to a handler      *)
(***************************************************************************)
InitTrip ==
    /\ actions = [id \in ActionIds |-> NoActionRow]
    /\ policies = [id \in PolicyIds |-> NoPolicyRow]
    /\ domainEvents = EmptyTable
    /\ eventOutbox = EmptyTable
    /\ commitLog = [id \in AggregateIds |-> <<>>]
    /\ scope = ActionIds
    /\ IdleWrite /\ IdleOutbox
    /\ registry = <<>>
    /\ ledgerUnique = TRUE
    /\ jpc = [j \in Executions |-> "idle"]
    /\ jevent = [j \in Executions |-> 0]
    /\ hpc = [j \in Executions |-> <<>>]
    /\ processedEvents = [p \in Pairs({}) |-> 0]
    /\ auditLog = [p \in Pairs({}) |-> 0]
    /\ attemptsMade = 0
    /\ deliveries = 0
    /\ failureAttempts = <<>>
    /\ simulateFailure = FALSE
    /\ uncommittedEvents = <<>>
    /\ \E e \in TripEvents :
          trip = [stage |-> "created", event |-> e, row |-> <<>>,
                  outbox |-> <<>>, job |-> <<>>, received |-> <<>>]

NextTrip == TripPersist \/ TripEnqueue \/ TripProcess

SpecTrip == InitTrip /\ [][NextTrip]_vars

(***************************************************************************)
(* BaseDomainEventWorker                                                   *)
(***************************************************************************)
\* getHandlerName() of the worker
BaseHandlerName == "ProjectionHandler"
BasePair == <<JobEvent, BaseHandlerName>>

\* BaseDomainEventWorker.markAsProcessed: a plain INSERT; with the unique index
\* a second row for the pair is a duplicate-key error
baseLedgerInsert(rows, unique) ==
    IF unique /\ rows > 0
    THEN [rows |-> rows, error |-> TRUE]
    ELSE [rows |-> rows + 1, error |-> FALSE]

\* the job ends: attemptsMade counts the attempts that threw
BaseWorker_end(j, result) ==
    /\ jpc' = [jpc EXCEPT ![j] = result]
    /\ hpc' = [hpc EXCEPT ![j] = <<>>]
    /\ attemptsMade' = IF result = "failed" THEN attemptsMade + 1
                                            ELSE attemptsMade

\* handleJob up to the ledger lookup (shouldProcess returns true)
BaseWorker_handleJob(j) ==
    /\ jpc[j] \in {"idle", "completed", "failed"}
    /\ \E job \in queueJobs : job.eventId = JobEvent
    /\ attemptsMade < QueueAttempts
    /\ deliveries < MaxDeliveries
    /\ deliveries' = deliveries + 1
    /\ jevent' = [jevent EXCEPT ![j] = JobEvent]
    /\ hpc' = [hpc EXCEPT ![j] = <<"check">>]
    /\ jpc' = [jpc EXCEPT ![j] = "running"]
    /\ UNCHANGED <<tableVars, eventOutbox, writeVars, outboxVars, memoryVars, registry,
                   ledgerUnique, processedEvents, auditLog, attemptsMade>>

\* isAlreadyProcessed(eventId): a hit returns from handleJob
BaseWorker_isAlreadyProcessed(j) ==
    /\ jpc[j] = "running" /\ hpc[j] = <<"check">>
    /\ IF processedEvents[BasePair] > 0
       THEN BaseWorker_end(j, "completed")
       ELSE /\ hpc' = [hpc EXCEPT ![j] = <<"handle">>]
            /\ UNCHANGED <<jpc, attemptsMade>>
    /\ UNCHANGED <<tableVars, eventOutbox, writeVars, outboxVars, memoryVars, registry,
                   ledgerUnique, jevent, processedEvents, auditLog, deliveries>>

\* processEvent(job) of the subclass: its side effect, or an error that
\* handleJob logs and rethrows
BaseWorker_processEvent(j, ok) ==
    /\ jpc[j] = "running" /\ hpc[j] = <<"handle">>
    /\ IF ok
       THEN /\ auditLog' = [auditLog EXCEPT ![BasePair] = @ + 1]
            /\ hpc' = [hpc EXCEPT ![j] = <<"mark">>]
            /\ UNCHANGED <<jpc, attemptsMade>>
       ELSE /\ BaseWorker_end(j, "failed")
            /\ UNCHANGED auditLog
    /\ UNCHANGED <<tableVars, eventOutbox, writeVars, outboxVars, memoryVars, registry,
                   ledgerUnique, jevent, processedEvents, deliveries>>

\* markAsProcessed(eventId): an error of the INSERT is rethrown by handleJob
BaseWorker_markAsProcessed(j) ==
    /\ jpc[j] = "running" /\ hpc[j] = <<"mark">>
    /\ LET r == baseLedgerInsert(processedEvents[BasePair], ledgerUnique)
       IN /\ processedEvents' = [processedEvents EXCEPT ![BasePair] = r.rows]
          /\ BaseWorker_end(j, IF r.error THEN "failed" ELSE "completed")
    /\ UNCHANGED <<tableVars, eventOutbox, writeVars, outboxVars, memoryVars, registry,
                   ledgerUnique, jevent, auditLog, deliveries>>

(***************************************************************************)
(* SpecBaseWorker: two BaseDomainEventWorker executions of one job         *)
(***************************************************************************)
NextBaseWorker ==
    \/ \E j \in Executions : BaseWorker_handleJob(j)
    \/ \E j \in Executions : BaseWorker_isAlreadyProcessed(j)
    \/ \E j \in Executions, ok \in BOOLEAN : BaseWorker_processEvent(j, ok)
    \/ \E j \in Executions : BaseWorker_markAsProcessed(j)

SpecBaseWorker == InitWorker /\ [][NextBaseWorker]_vars

(***************************************************************************)
(* Properties of the write path (SpecWrite)                                *)
(***************************************************************************)
EventsOf(id) == {e \in DOMAIN domainEvents : domainEvents[e].aggregateId = id}
OutboxOf(e)  == {o \in DOMAIN eventOutbox : eventOutbox[o].eventId = e}
StoredRow(id) == IF id \in ActionIds THEN actions[id] ELSE policies[id]

\* C1: between transactions, a state row at version v has the event of the
\* transition to v in the event log, every event row has an outbox row, every
\* outbox row belongs to an event row, and an aggregate has event rows exactly
\* if its state row exists: state, events and outbox are committed together
\* or not at all.
C1_AtomicPublish ==
    /\ \A id \in AggregateIds :
         StoredRow(id).version >= 1 =>
            \E e \in EventsOf(id) :
                /\ domainEvents[e].newVersion = StoredRow(id).version
                /\ OutboxOf(e) # {}
    /\ \A id \in AggregateIds :
         (EventsOf(id) # {}) <=> (StoredRow(id).status # "absent")
    /\ \A e \in DOMAIN domainEvents : OutboxOf(e) # {}
    /\ \A o \in DOMAIN eventOutbox : eventOutbox[o].eventId \in DOMAIN domainEvents

\* C1 witness: a row has been moved to version 2 by a committed update while
\* another command's transaction was rolled back
C1_Witness ==
    \E id \in AggregateIds, w \in Writers :
        /\ StoredRow(id).version >= 2
        /\ Cardinality(EventsOf(id)) >= 2
        /\ wpc[w] = "done" /\ wresult[w] = thrown("DatabaseError")

\* C2: when an update-action command returns after another update-action
\* command on the same action with the same expectedVersion, which overlapped
\* it, has returned success with version expectedVersion + 1, the later one
\* returns OPTIMISTIC_LOCK_FAILED with rule action.version.mismatch and the
\* row is at expectedVersion + 1 (an infrastructure error aside).
C2_ExactlyOneWinner ==
    [][\A w \in Writers : \A o \in Writers \ {w} :
          ( /\ wcmd[w].type = "UpdateAction" /\ wcmd[o].type = "UpdateAction"
            /\ wcmd[w].id = wcmd[o].id
            /\ wcmd[w].expectedVersion = wcmd[o].expectedVersion
            /\ wpc[w] = "done"
            /\ wresult[w] = commandSuccess(wcmd[w].expectedVersion + 1)
            /\ wpc[o] \in {"tx", "txState"}
            /\ wpc'[o] = "done"
            /\ wresult'[o].status # "thrown" )
          => /\ wresult'[o] = commandFailure("OPTIMISTIC_LOCK_FAILED",
                                             "action.version.mismatch")
             /\ actions'[wcmd[o].id].version = wcmd[o].expectedVersion + 1]_vars

\* C3: the versions written to one aggregate row by committed transactions
\* are 1, 2, 3, ... in this order, without gap and without repetition.
C3_MonotoneVersions ==
    \A id \in AggregateIds :
        commitLog[id] = [i \in 1..Len(commitLog[id]) |-> i]

\* C10: a state row at version v has exactly v domain-event rows of its
\* aggregate id, and each of them has exactly one outbox row.
C10_EventCountIsVersion ==
    \A id \in AggregateIds :
        /\ Cardinality(EventsOf(id)) = StoredRow(id).version
        /\ \A e \in EventsOf(id) : Cardinality(OutboxOf(e)) = 1

(***************************************************************************)
(* Properties of the dispatchers (SpecOutbox)                              *)
(***************************************************************************)
\* the calls or pending claims that hold an outbox row
Holders(id) ==
    {t.d : t \in {u \in dtasks : u.entry.id = id}}
    \cup {d \in Dispatchers : \E e \in dbatch[d] : e.id = id}

\* C5: the rows claimed by different dispatcher processes are disjoint: no
\* outbox row is being processed by two dispatchers at the same time.
C5_DisjointClaims ==
    \A t1 \in dtasks : \A t2 \in dtasks :
        t1.entry.id = t2.entry.id => t1.d = t2.d

\* C6: when a dispatcher dies after it has marked a row processing and before
\* it has enqueued it, the row it leaves behind in status processing is
\* selected again by a poll no later than one retry interval after the death.
C6_ReclaimedAfterCrash ==
    [][\A d \in Dispatchers :
          (dpc[d] = "run" /\ dpc'[d] = "down") =>
             \A t \in Tasks(d) :
                ( /\ t.step = "add"
                  /\ eventOutbox'[t.entry.id].status = "processing"
                  /\ Holders(t.entry.id) = {d} )
                => Eligible(eventOutbox'[t.entry.id],
                            now + MAX_RETRY_DELAY_MS)]_vars

\* C8: no step changes the status of an outbox row from completed or failed
\* to pending.
C8_TerminalNeverPending ==
    [][\A id \in DOMAIN eventOutbox :
          eventOutbox[id].status \in {"completed", "failed"}
             => eventOutbox'[id].status # "pending"]_vars

\* C9: every outbox row in status completed has its event id among the jobs
\* that were successfully added to the queue.
C9_CompletedWasEnqueued ==
    \A id \in DOMAIN eventOutbox :
        eventOutbox[id].status = "completed" =>
            \E i \in 1..Len(enqueueLog) : enqueueLog[i] = eventOutbox[id].eventId

\* C9 witness: a row is completed after an add that failed was retried
C9_Witness ==
    \E id \in DOMAIN eventOutbox :
        /\ eventOutbox[id].status = "completed"
        /\ eventOutbox[id].retryCount >= 1

\* C27: after every step each outbox row carries the id of a domain-event row
\* that exists, and no step removes or replaces a domain-event row.
C27_NoOrphanOutbox ==
    [][/\ \A o \in DOMAIN eventOutbox' :
             eventOutbox'[o].eventId \in DOMAIN domainEvents'
       /\ \A e \in DOMAIN domainEvents :
             e \in DOMAIN domainEvents' /\ domainEvents'[e] = domainEvents[e]]_vars

\* C27 witness: two transactions have committed an event row and its outbox row
C27_Witness ==
    /\ Cardinality(DOMAIN eventOutbox) >= 2
    /\ \A o \in DOMAIN eventOutbox :
          /\ eventOutbox[o].eventId \in DOMAIN domainEvents
          /\ domainEvents[eventOutbox[o].eventId].eventType = eventOutbox[o].eventType

\* C32: a command other than a create that is addressed to an id without a
\* state row is answered by the command bus with a NOT_FOUND failure: the
\* handler does not throw and the bus does not report INTERNAL_ERROR.
C32_MissingEntityIsNotFound ==
    [][\A w \in Writers :
          ( /\ wpc[w] \in {"idle", "done"}
            /\ <<wpc[w], wcmd[w], wresult[w]>>' # <<wpc[w], wcmd[w], wresult[w]>>
            /\ ~IsCreate(wcmd'[w])
            /\ findById(wcmd'[w]).status = "absent" )
          => /\ wpc'[w] = "done"
             /\ wresult'[w].status = "failure"
             /\ CommandBus_execute(wresult'[w]).code = "NOT_FOUND"]_vars

\* C18: a transaction that fails after its state write, before or after the
\* event and outbox inserts, leaves the state rows, the event rows and the
\* outbox rows as they were before it, and execute() throws the failure.
C18_AbortLeavesNothing ==
    [][\A w \in Writers :
          (wpc[w] = "txState" /\ wpc'[w] = "done" /\ wresult'[w].status # "success")
          => /\ <<actions, policies, domainEvents, eventOutbox>>' =
                <<actions, policies, domainEvents, eventOutbox>>
             /\ wresult'[w] = thrown("DatabaseError")]_vars

\* C18 witness: a create whose transaction was aborted: the caller has the
\* error, the aggregate has no state row, no event row and no outbox row
C18_Witness ==
    \E w \in Writers :
        /\ wpc[w] = "done" /\ wresult[w] = thrown("DatabaseError")
        /\ IsCreate(wcmd[w])
        /\ StoredRow(wcmd[w].id).status = "absent"
        /\ EventsOf(wcmd[w].id) = {}
        /\ \A o \in DOMAIN eventOutbox : eventOutbox[o].aggregateId # wcmd[w].id

\* C19: a revoked policy row and an inactive (completed or cancelled) action
\* row are not changed by any later step of any command.
C19_TerminalIrreversible ==
    [][/\ \A id \in ActionIds :
             actions[id].status = "inactive" => actions'[id] = actions[id]
       /\ \A id \in PolicyIds :
             policies[id].status = "revoked" => policies'[id] = policies[id]]_vars

\* C20: a writer submits the state-changing command that another writer has
\* just completed with success and a new version, with the same expected
\* version, while the row is as that success left it: the second submission is
\* answered at once with a failure whose code is OPTIMISTIC_LOCK_FAILED.
C20_SecondSubmissionIsLockFailure ==
    [][\A w \in Writers : \A o \in Writers \ {w} :
          ( /\ wpc[o] = "done" /\ wresult[o].status = "success"
            /\ ~IsCreate(wcmd[o])
            /\ wresult[o].version = wcmd[o].expectedVersion + 1
            /\ StoredRow(wcmd[o].id).version = wresult[o].version
            /\ wpc[w] \in {"idle", "done"}
            /\ wcmd'[w] = wcmd[o]
            /\ <<wpc[w], wcmd[w], wresult[w]>>' # <<wpc[w], wcmd[w], wresult[w]>> )
          => /\ wpc'[w] = "done"
             /\ wresult'[w].status = "failure"
             /\ wresult'[w].code = "OPTIMISTIC_LOCK_FAILED"]_vars

\* C39: every outbox row has retry_count <= max_retries; a pending or
\* processing row has retry_count < max_retries and a failed row has
\* retry_count >= max_retries.
C39_AttemptsWithinMax ==
    \A id \in DOMAIN eventOutbox :
        LET row == eventOutbox[id]
        IN /\ row.retryCount <= row.maxRetries
           /\ row.status \in {"pending", "processing"}
                 => row.retryCount < row.maxRetries
           /\ row.status = "failed" => row.retryCount >= row.maxRetries

\* C34: once stopPolling has set isShuttingDown, no call of processOutbox of
\* that dispatcher, from the timer or from triggerProcessing, selects rows and
\* starts a claim.
C34_NoClaimCycleAfterShutdown ==
    [][\A d \in Dispatchers :
          isShuttingDown[d]
          => /\ dbatch'[d] \subseteq dbatch[d]
             /\ dpc'[d] = "update" => dpc[d] = "update"]_vars

\* C34 witness: a dispatcher that is shutting down is idle while a row is
\* eligible for a claim
C34_Witness ==
    \E d \in Dispatchers :
        /\ isShuttingDown[d] /\ dpc[d] = "idle" /\ ~isProcessing[d]
        /\ dbatch[d] = {}
        /\ \E id \in DOMAIN eventOutbox : Eligible(eventOutbox[id], now)

\* C14: while a processEvent call of a batch of a dispatcher is still adding
\* or marking its row, the in-process mutex of that dispatcher is held, so a
\* timer tick or triggerProcessing() returns without a claim cycle.
C14_SingleBatchInFlight ==
    \A t \in dtasks : isProcessing[t.d] \/ isShuttingDown[t.d]

\* C22: the claim SELECT of a dispatcher returns a row that a failed enqueue
\* has put back with next_retry_at = t only when the clock has reached t.
C22_RetryNotBeforeNextRetryAt ==
    [][\A d \in Dispatchers : \A e \in dbatch'[d] \ dbatch[d] :
          \/ eventOutbox[e.id].nextRetryAt = NullTime
          \/ eventOutbox[e.id].nextRetryAt <= now]_vars

\* C23: when onModuleDestroy of a dispatcher has returned (the shutdown flag is
\* set), no row claimed by that dispatcher is still waiting for its claim
\* UPDATE, its add or its final status update.
C23_ShutdownWaitsForBatch ==
    \A d \in Dispatchers :
        isShuttingDown[d] => (dbatch[d] = {} /\ Tasks(d) = {})

\* C28: while no dispatcher process has died, a row in status processing is
\* either held by a running processOutbox call, which will mark it, or has a
\* next_retry_at, which makes a later claim SELECT return it: no row is left
\* that the dispatchers will never touch again before it is completed or
\* failed.
C28_NoRowLeftBehind ==
    crashes = 0 =>
        \A id \in DOMAIN eventOutbox :
            (eventOutbox[id].status = "processing" /\ Holders(id) = {})
            => eventOutbox[id].nextRetryAt # NullTime

\* C29: the UPDATE of markFailed raises the retry_count of the row by exactly
\* one and records last_error; with the new count at max_retries or above the
\* row is failed, otherwise it is pending with next_retry_at = now +
\* min(BASE_RETRY_DELAY_MS * 2^count, MAX_RETRY_DELAY_MS).
C29_MarkFailedCountsOnce ==
    [][\A t \in dtasks :
          ( /\ t.step = "markFailed" /\ t \notin dtasks'
            /\ eventOutbox'[t.entry.id] # eventOutbox[t.entry.id] )
          => LET r  == eventOutbox[t.entry.id]
                 r2 == eventOutbox'[t.entry.id]
             IN /\ r2.retryCount = r.retryCount + 1
                /\ r2.lastError = "error"
                /\ IF r2.retryCount >= r.maxRetries
                   THEN r2.status = "failed"
                   ELSE /\ r2.status = "pending"
                        /\ r2.nextRetryAt =
                              now + Min(BASE_RETRY_DELAY_MS * (2 ^ r2.retryCount),
                                        MAX_RETRY_DELAY_MS)
                        /\ r2.nextRetryAt - now <= MAX_RETRY_DELAY_MS]_vars

\* position of an event in the order of the first successful adds; 0 if none
EnqueuePos(e) ==
    IF \E i \in 1..Len(enqueueLog) : enqueueLog[i] = e
    THEN CHOOSE i \in 1..Len(enqueueLog) : enqueueLog[i] = e
    ELSE 0

\* C21: of two outbox rows of one aggregate that have both been enqueued
\* without a failed attempt, the one created earlier was enqueued first.
C21_CreationOrderOnFirstAttempt ==
    \A a \in DOMAIN eventOutbox : \A b \in DOMAIN eventOutbox :
        ( /\ eventOutbox[a].aggregateId = eventOutbox[b].aggregateId
          /\ createdAt(eventOutbox[a]) < createdAt(eventOutbox[b])
          /\ eventOutbox[a].retryCount = 0 /\ eventOutbox[b].retryCount = 0
          /\ EnqueuePos(eventOutbox[a].eventId) > 0
          /\ EnqueuePos(eventOutbox[b].eventId) > 0 )
        => EnqueuePos(eventOutbox[a].eventId) < EnqueuePos(eventOutbox[b].eventId)

\* C15: the job id of every enqueue is the event id of the row, so the queue
\* holds at most one job per outbox row whatever the number of adds for it, and
\* dispatching leaves the domain_events table as the writers committed it.
C15_OneJobPerRow ==
    /\ \A id \in DOMAIN eventOutbox :
          Cardinality({j \in queueJobs : j.eventId = eventOutbox[id].eventId}) <= 1
    /\ \A j \in queueJobs : j.id = j.eventId
    /\ domainEvents = SeedTables.events

\* two processEvent calls for the same row have both had their add resolved
C15_Witness ==
    /\ \E t1 \in dtasks : \E t2 \in dtasks \ {t1} :
          /\ t1.entry.id = t2.entry.id
          /\ t1.step = "markCompleted" /\ t2.step = "markCompleted"
    /\ Cardinality(queueJobs) = 1

(***************************************************************************)
(* Properties of the worker (SpecWorker)                                   *)
(***************************************************************************)
\* every handler name is registered once for the event type
DistinctHandlers ==
    \A i \in 1..Len(registry) : \A k \in 1..Len(registry) :
        registry[i] = registry[k] => i = k

\* C4: with each handler registered once, the side effect of a handler for an
\* event (the audit row) is persisted at most once per (eventId, handlerName),
\* over first delivery, redelivery, concurrent executions and retries.
C4_SideEffectAtMostOnce ==
    DistinctHandlers => \A p \in DOMAIN auditLog : auditLog[p] <= 1

\* C7: when a job with several subscribed handlers finishes and at least one
\* of its handlers has failed, the result of the job is failure.
C7_AnyFailureFailsJob ==
    [][\A j \in Executions :
          ( /\ DistinctHandlers
            /\ jpc[j] = "running"
            /\ jpc'[j] \in {"completed", "failed"}
            /\ Len(hpc[j]) > 1
            /\ \E i \in 1..Len(hpc[j]) : hpc[j][i] = "rejected" )
          => jpc'[j] = "failed"]_vars

\* C12: the ledger never holds two rows with the same (eventId, handlerName).
C12_LedgerPairUnique ==
    \A p \in DOMAIN processedEvents : processedEvents[p] <= 1

\* C13: recording (eventId, handlerName) while the ledger already holds the
\* pair completes without an error and leaves the ledger as it is.
C13_DuplicateRecordIsSuccess ==
    [][\A j \in Executions :
          ( /\ jpc[j] = "running"
            /\ hpc[j] = <<"mark">> /\ hpc'[j] # <<"mark">>
            /\ processedEvents[BasePair] > 0 )
          => /\ jpc'[j] = "completed"
             /\ processedEvents' = processedEvents]_vars

C35_LedgerRowAfterSuccess ==
    [][\A p \in DOMAIN processedEvents :
          /\ processedEvents'[p] > processedEvents[p]
             => /\ auditLog[p] >= 1
                /\ \E j \in Executions : \E i \in 1..Len(hpc[j]) :
                      /\ jevent[j] = p[1] /\ registry[i] = p[2]
                      /\ hpc[j][i] = "mark" /\ hpc'[j][i] = "fulfilled"
          /\ (\E j \in Executions : \E i \in 1..Len(hpc[j]) :
                 /\ jevent[j] = p[1] /\ registry[i] = p[2]
                 /\ hpc[j][i] = "handle"
                 /\ i \in 1..Len(hpc'[j]) /\ hpc'[j][i] = "rejected")
             => processedEvents'[p] = processedEvents[p]]_vars

\* C35 witness: one attempt of the handler has thrown and left no ledger row,
\* a later attempt has returned and the ledger row stands next to its side
\* effect
C35_Witness ==
    /\ registry = <<"ActionAuditHandler">>
    /\ attemptsMade = 1
    /\ auditLog[<<JobEvent, "ActionAuditHandler">>] = 1
    /\ processedEvents[<<JobEvent, "ActionAuditHandler">>] = 1

\* C24: a handler name is in the list of the event type at most once, so one
\* execution of the job has at most one call slot per handler name.
C24_DuplicateRegistrationRejected ==
    /\ \A i \in 1..Len(registry) : \A k \in 1..Len(registry) :
          registry[i] = registry[k] => i = k
    /\ \A j \in RetryExecutions : \A h \in HandlerNames :
          Cardinality({i \in 1..Len(hpc[j]) : registry[i] = h}) <= 1

C16_FailThenSucceed ==
    DistinctHandlers =>
        \A j \in RetryExecutions :
            (jpc[j] = "completed" \/
             (jpc[j] = "failed" /\ attemptsMade = QueueAttempts)) =>
                \A i \in 1..Len(registry) :
                    /\ auditLog[<<JobEvent, registry[i]>>] = 1
                    /\ processedEvents[<<JobEvent, registry[i]>>] = 1

(***************************************************************************)
(* Properties of the aggregates (SpecAggregate)                            *)
(***************************************************************************)
\* C33: with payload.simulateFailure the job of the event ends, completed or
\* with its attempts used up, with exactly one audit row and one ledger row of
\* PolicyAuditHandler: the handler threw on invocations 1 and 2 and returned
\* on invocation 3.
C33_FaultJobEndsWithOneRow ==
    \A j \in RetryExecutions :
        ( /\ simulateFailure
          /\ \/ jpc[j] = "completed"
             \/ jpc[j] = "failed" /\ attemptsMade = QueueAttempts )
        => /\ auditLog[FaultPair] = 1
           /\ processedEvents[FaultPair] = 1

\* C36: the event a handler receives equals the event the write path
\* persisted: the job carries the id of the event row, and event type,
\* aggregate type, aggregate id, metadata and payload are those of the
\* original event; no payload field is dropped or overwritten on the way.
C36_HandlerReceivesPersistedEvent ==
    trip.stage = "handled"
    => /\ trip.job.eventId = trip.row.id
       /\ trip.received.eventType = trip.event.eventType
       /\ trip.received.aggregateType = trip.event.aggregateType
       /\ trip.received.aggregateId = trip.event.aggregateId
       /\ trip.received.metadata = trip.event.metadata
       /\ \A f \in DOMAIN trip.event.payload :
             /\ f \in DOMAIN trip.received.payload
             /\ trip.received.payload[f] = trip.event.payload[f]

\* C25: an operation on a policy changes the status only along draft ->
\* active (activate), active -> suspended (suspend, non-empty reason),
\* suspended -> active (resume) and non-revoked -> revoked (revoke, non-empty
\* reason and revoker id), each with the next version; any other combination
\* of operation and status fails and leaves status and version as they were.
C25_PolicyTransitions ==
    [][LET s   == wagg[AggWriter]
           t   == wagg'[AggWriter]
           c   == wcmd'[AggWriter]
           res == wresult'[AggWriter]
           allowed ==
               \/ c.type = "ActivatePolicy" /\ s.status = "draft"
               \/ c.type = "SuspendPolicy" /\ s.status = "active"
                     /\ Trim(c.reason) # <<>>
               \/ c.type = "ResumePolicy" /\ s.status = "suspended"
               \/ c.type = "RevokePolicy" /\ s.status # "revoked"
                     /\ Trim(c.reason) # <<>> /\ Trim(c.revokedBy) # <<>>
           target ==
               CASE c.type = "ActivatePolicy" -> "active"
                 [] c.type = "SuspendPolicy" -> "suspended"
                 [] c.type = "ResumePolicy" -> "active"
                 [] c.type = "RevokePolicy" -> "revoked"
       IN (scope = PolicyIds /\ c.type \in PolicyCommandTypes \ {"CreatePolicy"})
          => IF allowed /\ c.expectedVersion = s.version
             THEN /\ res.status = "success"
                  /\ t.status = target /\ t.version = s.version + 1
             ELSE /\ res.status = "failure"
                  /\ t.status = s.status /\ t.version = s.version]_vars

\* C25 witness: the policy has gone draft -> active -> suspended -> active ->
\* revoked
C25_Witness ==
    /\ scope = PolicyIds
    /\ wagg[AggWriter].status = "revoked" /\ wagg[AggWriter].version = 5
    /\ wagg[AggWriter].suspensionReason = Null
    /\ wresult[AggWriter] = commandSuccess(5)

\* C26: an operation changes the status of an action only from active to
\* inactive, by complete or by cancel with a non-empty reason, with the next
\* version; update, complete and cancel on an inactive action fail and leave
\* the whole state, version included, as it was.
C26_ActionTransitions ==
    [][LET s   == wagg[AggWriter]
           t   == wagg'[AggWriter]
           c   == wcmd'[AggWriter]
           res == wresult'[AggWriter]
           closes ==
               \/ c.type = "CompleteAction"
               \/ c.type = "CancelAction" /\ Trim(c.reason) # <<>>
       IN (scope = ActionIds /\ c.type \in ActionCommandTypes \ {"CreateAction"})
          => /\ s.status = "inactive" => (res.status = "failure" /\ t = s)
             /\ t.status # s.status =>
                   /\ s.status = "active" /\ t.status = "inactive" /\ closes
                   /\ res.status = "success" /\ t.version = s.version + 1
             /\ (s.status = "active" /\ closes /\ c.expectedVersion = s.version)
                   => (res.status = "success" /\ t.status = "inactive")
             /\ res.status = "failure" => t = s]_vars

\* C26 witness: an update of an inactive action with the right expected
\* version has been refused
C26_Witness ==
    /\ scope = ActionIds
    /\ wagg[AggWriter].status = "inactive"
    /\ wcmd[AggWriter].type = "UpdateAction"
    /\ wcmd[AggWriter].expectedVersion = wagg[AggWriter].version
    /\ wresult[AggWriter] =
          commandFailure("BUSINESS_RULE_VIOLATION", "action.update.inactive")

\* C30: an update of an active action with the right expected version whose
\* supplied fields (name, description, metadata) all equal the current values
\* succeeds with no event and leaves the state, version included, as it was.
C30_NoOpUpdate ==
    [][LET s == wagg[AggWriter]
           c == wcmd'[AggWriter]
       IN ( /\ scope = ActionIds /\ c.type = "UpdateAction"
            /\ s.status = "active" /\ c.expectedVersion = s.version
            /\ c.name = Undef \/ c.name = s.name
            /\ c.description = Undef \/ c.description = s.description
            /\ c.metadata = Undef \/ c.metadata = s.metadata )
          => /\ wresult'[AggWriter] = commandSuccess(s.version)
             /\ wevents'[AggWriter] = <<>>
             /\ wagg'[AggWriter] = s]_vars

\* C31: an operation called with an expected version other than the current
\* version of the aggregate fails with the version-mismatch rule of its
\* aggregate type, whatever the status and the other arguments are.
C31_VersionCheckedFirst ==
    [][LET s   == wagg[AggWriter]
           c   == wcmd'[AggWriter]
           res == wresult'[AggWriter]
       IN (~IsCreate(c) /\ c.type # "none" /\ c.expectedVersion # s.version)
          => /\ res.status = "failure"
             /\ res.rule = IF IsActionCommand(c) THEN "action.version.mismatch"
                                                ELSE "policy.version.mismatch"]_vars

\* C31 witness: a revoke with a blank reason, no revoker id and a stale
\* expected version has been answered with the version mismatch
C31_Witness ==
    /\ wcmd[AggWriter].type = "RevokePolicy"
    /\ Trim(wcmd[AggWriter].reason) = <<>>
    /\ Trim(wcmd[AggWriter].revokedBy) = <<>>
    /\ wcmd[AggWriter].expectedVersion # wagg[AggWriter].version
    /\ wresult[AggWriter].rule = "policy.version.mismatch"

\* C37: a successful operation that changes the state raises the version by
\* exactly one and returns exactly the events it has produced itself, also
\* when it is not the first operation on the instance: the events of earlier
\* operations are not returned again.
C37_OwnEventsOnly ==
    [][( /\ wresult'[AggWriter].status = "success"
         /\ wagg'[AggWriter] # wagg[AggWriter] )
       => /\ wagg'[AggWriter].version = wagg[AggWriter].version + 1
          /\ Len(wevents'[AggWriter]) = 1
          /\ wevents'[AggWriter][1].newVersion = wagg'[AggWriter].version]_vars

\* C38: an aggregate operation that fails leaves the state of the aggregate,
\* its version included, and its list of uncommitted events as they were and
\* returns no event; the command handler then ends with the failure without
\* opening a transaction: the state rows, the event log and the outbox are
\* not written.
C38_FailedOperationChangesNothing ==
    [][LET unchangedOnFailure(cmd, row) ==
               LET r == AggregateOp(cmd, row)
               IN ( /\ cmd.id \in scope
                    /\ IsCreate(cmd) <=> row.status = "absent"
                    /\ ~r.success )
                  => r.state = row /\ r.events = <<>>
       IN /\ tableVars' # tableVars
             => \A cmd \in AggCommands :
                   /\ unchangedOnFailure(cmd, findById(cmd))
                   /\ unchangedOnFailure(cmd, findById(cmd)')
          /\ \A w \in Writers :
                ( /\ wresult'[w].status = "failure"
                  /\ <<wpc[w], wcmd[w], wresult[w]>>'
                        # <<wpc[w], wcmd[w], wresult[w]>> )
                => /\ wpc[w] \in {"idle", "done"}
                   /\ wpc'[w] \in {"idle", "done"}
                   /\ ~IsCreate(wcmd'[w]) => wagg'[w] = wagg[w]
                   /\ wevents'[w] = <<>>
                   /\ uncommittedEvents' = uncommittedEvents
                   /\ <<tableVars, eventOutbox, commitLog>>' =
                         <<tableVars, eventOutbox, commitLog>>]_vars

\* C38 witness: a cancel without a reason has ended with the rule
\* action.cancel.reason_required and the action is still active in its first
\* version, with its creation as its only event
C38_Witness ==
    \E w \in Writers :
        /\ wpc[w] = "done" /\ wcmd[w].type = "CancelAction"
        /\ wresult[w] = commandFailure("BUSINESS_RULE_VIOLATION",
                                       "action.cancel.reason_required")
        /\ actions[wcmd[w].id].status = "active"
        /\ actions[wcmd[w].id].version = 1
        /\ Cardinality({e \in DOMAIN domainEvents : e[1] = wcmd[w].id}) = 1
        /\ Cardinality({o \in DOMAIN eventOutbox : o[1] = wcmd[w].id}) = 1
====
